---- MODULE Spec2Model ----
(***************************************************************************)
(* Model of the observable cache layer of telemetry-demo-go: the TTL cache *)
(* (internal/cache), the subscriber repositories (internal/repository),    *)
(* the read-through service (internal/service) and the test span recorder  *)
(* (internal/telemetry).  Every goroutine is a process with a call stack   *)
(* of labels; every lock acquisition, critical section and release is a    *)
(* step of its own.  Time is counted in minutes.                           *)
(***************************************************************************)
EXTENDS Integers, Sequences, FiniteSets, TLC

\* ------------------------------------------------------------------ bounds
MaxProcs == 2       \* client goroutines (concurrent calls)
MaxSubs == 2        \* subscriber identities (uuid.New() values) in play
MaxOps == 2         \* client calls started in one run of the cache, repository or recorder
MaxReqs == 3        \* service requests and direct cache calls in one run of the application
MaxTTL == 1         \* largest ttl (minutes) a direct cache.Set passes
MaxCacheTime == 2   \* last minute of the clock in runs of the cache alone
MaxTime == 6        \* last minute of the clock in runs of the application
MaxCrudReqs == 4    \* service requests in one run of create, read and update
MaxCrudSubs == 1    \* subscribers created in such a run
MaxDaprReqs == 3    \* service requests in one run of the application over Dapr
MaxFaultyReqs == 3  \* service requests in one run of the service over a failing cache
MaxCancelReqs == 3  \* service requests in one run with cancellable contexts
MaxSetOps == 3      \* cache calls in one run of Get and Set with free keys and values
MaxSetTime == 1     \* last minute of the clock in those runs
MaxClearOps == 4    \* cache calls in one run of Clear over a filled cache
MaxClearTime == 1   \* last minute of the clock in those runs
MaxDeleteReqs == 5  \* service requests in one run with concurrent reads and deletes
MaxDirtyReqs == 3   \* service requests in one run with one update and concurrent reads
MaxInsts == 2       \* application instances set up in one process
MaxInstReqs == 2    \* requests to one application instance

\* ------------------------------------------------------- program constants
ServiceTTL == 5     \* 5*time.Minute, the ttl the service caches with
TickerPeriod == 1   \* time.NewTicker(1 * time.Minute), the reaper's period

Procs == 1..MaxProcs
NoProc == 0         \* no goroutine: the zero value of a mutex
ReaperId == MaxProcs + 1   \* the goroutine started by NewInMemoryCache
Ids == 1..MaxSubs
Nil == 0            \* nil *models.Subscriber
Emails == {"a@x.com"}

VARIABLES
  now,          \* time.Now(), in minutes
  tickPending,  \* ticker.C holds a tick the reaper has not consumed
  items,        \* InMemoryCache.items: cache key -> cacheItem, or NoItem
  cmu,          \* InMemoryCache.mu: [w: writer or NoProc, r: set of readers]
  reaper,       \* the cleanup goroutine: [pc, now, todo]
  subscribers,  \* InMemorySubscriberRepository.subscribers: id -> pointer or Nil
  rmu,          \* InMemorySubscriberRepository.mu
  store,        \* the Dapr state store: key -> marshalled subscriber or Nil
  heap,         \* the Subscriber objects, by identity
  nextId,       \* the next uuid.New()
  spans,        \* TestSpanRecorder.spans
  tmu,          \* TestSpanRecorder.mu: the writer, or NoProc
  pc,           \* per goroutine: the call stack of labels, innermost first
  loc,          \* per goroutine: arguments, locals and results
  open,         \* per goroutine: the spans started and not ended, innermost first
  nops,         \* client calls started so far
  hist,         \* history variables the properties are stated over
  provider,     \* otel's global TracerProvider: the instance that set it, or NoInst
  tracers,      \* per application instance: the provider each component's tracer is from
  recorders,    \* per application instance: the spans its TestSpanRecorder holds
  setup         \* per application instance: the position of its SpawnTestApp, and its requests

vars == <<now, tickPending, items, cmu, reaper, subscribers, rmu, store, heap,
          nextId, spans, tmu, pc, loc, open, nops, hist,
          provider, tracers, recorders, setup>>

appVars == <<provider, tracers, recorders, setup>>

timeVars == <<now, tickPending>>
cacheVars == <<items, cmu, reaper>>
repoVars == <<subscribers, rmu, store, heap, nextId>>
recVars == <<spans, tmu>>

\* ---------------------------------------------------------------- values
\* uuid.UUID.String()
IdStr(id) == "uuid-" \o ToString(id)

\* uuid.Parse: the id a string denotes, or Nil for a malformed one
ParseUUID(s) == IF \E id \in Ids : IdStr(id) = s
                THEN CHOOSE id \in Ids : IdStr(id) = s
                ELSE Nil

\* fmt.Sprintf("subscriber:%s", id.String())
GenerateCacheKey(id) == "subscriber:" \o IdStr(id)

CacheKeys == {GenerateCacheKey(id) : id \in Ids}

\* the id strings a caller passes: every uuid's, and a malformed one
IdStrings == {IdStr(id) : id \in Ids} \cup {"not-a-uuid"}

NoItem == [subscriber |-> Nil, expireAt |-> -1]

\* a models.Subscriber that was not allocated
NoObject == [email |-> "", name |-> ""]

BoolStr(b) == IF b THEN "true" ELSE "false"

\* attribute.String / attribute.Bool / attribute.Int: one key-value pair
Attr(k, v) == <<k, v>>

\* tracer.Start(ctx, name, trace.WithAttributes(...)): a span not yet ended
StartSpan(name, attrs) == [name |-> name, attrs |-> attrs, err |-> FALSE]

\* span.SetAttributes(...)
SetAttributes(span, attrs) == [span EXCEPT !.attrs = @ \o attrs]

\* span.RecordError(err)
RecordError(span) == [span EXCEPT !.err = TRUE]

\* ------------------------------------------------------------ call stack
Idle(p) == pc[p] = <<>>
At(p, l) == pc[p] # <<>> /\ Head(pc[p]) = l
Goto(p, l) == [pc EXCEPT ![p] = <<l>> \o Tail(@)]
Call(p, entry, cont) == [pc EXCEPT ![p] = <<entry, cont>> \o Tail(@)]
Return(p) == [pc EXCEPT ![p] = Tail(@)]
Push(p, span) == [open EXCEPT ![p] = <<span>> \o @]
SetTop(p, attrs) == [open EXCEPT ![p] = <<SetAttributes(Head(@), attrs)>> \o Tail(@)]
ErrTop(p) == [open EXCEPT ![p] = <<RecordError(Head(@))>> \o Tail(@)]

\* goroutines are interchangeable: a new call runs on the lowest idle one
FirstIdle(p) == \A q \in Procs : q < p => ~Idle(q)

InitLoc == [op |-> "none", key |-> "", sub |-> Nil, ttl |-> 0,
            cres |-> Nil, cerr |-> "", readAt |-> 0,
            id |-> Nil, email |-> "", rid |-> "", rsub |-> Nil, rres |-> Nil, rall |-> {}, rerr |-> "",
            res |-> Nil, err |-> "",
            batch |-> <<>>, tmp |-> <<>>,
            \* the repository the service was built with: "r" in memory, "d" Dapr
            repo |-> "r",
            \* the cache the service was built with: "" InMemoryCache, "f" one that can fail
            cache |-> "",
            \* history of the call: what its cache lookup saw, and when it started
            setAt |-> -1, clr |-> FALSE, nth |-> 0, afterCreate |-> FALSE, afterClear |-> FALSE,
            afterUpdate |-> FALSE, afterQuiet |-> FALSE, alone |-> FALSE,
            afterDelete |-> FALSE,
            \* the cache map when the call started
            snap |-> <<>>,
            \* the context of the call has been cancelled
            cancelled |-> FALSE]

\* ------------------------------------------------------- history variables
NoSet == [t0 |-> -1, d |-> 0, v |-> Nil]

InitHist == [sinceClear |-> <<>>,                       \* spans exported since the last recorder Clear
             cleared |-> FALSE,                          \* recorder Clear ran and nothing was exported since
             sent |-> [p \in Procs |-> <<>>],            \* spans the goroutine's current call handed to the exporter
             lastSet |-> [k \in CacheKeys |-> NoSet],    \* the last Set of the key not followed by Delete or Clear
             removed |-> {},                             \* keys a sweep removed and no Set wrote since
             createdAt |-> [id \in Ids |-> -1],         \* when CreateSubscriber made the subscriber
             createDone |-> [id \in Ids |-> FALSE],     \* its CreateSubscriber has returned
             reads |-> [id \in Ids |-> 0],              \* GetSubscriber calls of the id that returned (at most 2 counted)
             everCached |-> {},                          \* ids some Set has cached
             clearCalled |-> FALSE,                      \* the cache's Clear has been called
             awaitRead |-> {},                           \* ids in the store and cached before a Clear returned, not read since
             awaitUpd |-> {},                            \* ids whose UpdateSubscriber returned with success, not read since
             quietUpd |-> {},                            \* those of them whose UpdateSubscriber overlapped no other request
             closedAt |-> -1,                            \* when the application was torn down
             deleted |-> {}]                             \* ids whose DeleteSubscriber returned with success

\* the history once the outermost call of goroutine p has returned
Returned(h, p) ==
  LET l == loc[p]
      h1 == [h EXCEPT !.sent[p] = <<>>]
  IN  IF l.op = "svc.Create" /\ l.err = ""
        THEN [h1 EXCEPT !.createDone[l.id] = TRUE]
      ELSE IF l.op = "svc.Get"
        THEN [h1 EXCEPT !.reads[l.id] = IF @ < 2 THEN @ + 1 ELSE @]
      ELSE IF l.op = "cache.Clear"
        THEN [h1 EXCEPT !.awaitRead = {id \in Ids : subscribers[id] # Nil /\ id \in h.everCached}]
      ELSE IF l.op = "svc.Update" /\ l.err = ""
        THEN [h1 EXCEPT !.awaitUpd = @ \cup {l.id},
                        !.quietUpd = IF l.alone THEN @ \cup {l.id} ELSE @ \ {l.id}]
      ELSE IF l.op = "svc.Delete" /\ l.err = ""
        THEN [h1 EXCEPT !.deleted = @ \cup {l.id}]
      ELSE h1

\* ------------------------------------------------------- TestSpanRecorder
\* t.mu.Lock() in ExportSpans and Clear: the mutex is free
RecorderLockFreeBroken == TRUE
RecorderLockFree == tmu = NoProc

\* ExportSpans: t.mu.Lock(), and append's read of t.spans
ExpLock(p) ==
  /\ At(p, "exp_lock")
  /\ RecorderLockFree
  /\ tmu' = p
  /\ loc' = [loc EXCEPT ![p].tmp = spans]
  /\ pc' = Goto(p, "exp_append")
  /\ UNCHANGED <<appVars, now, tickPending, items, cmu, reaper, subscribers, rmu, store, heap,
                 nextId, spans, open, nops, hist>>

\* append(t.spans, spans...)
AppendedBroken(recorded, batch) == batch \o recorded
Appended(recorded, batch) == recorded \o batch

\* ExportSpans: t.spans = append(t.spans, spans...), return nil, deferred t.mu.Unlock()
ExpAppend(p) ==
  /\ At(p, "exp_append")
  /\ spans' = Appended(loc[p].tmp, loc[p].batch)
  /\ tmu' = NoProc
  /\ hist' = LET h == [hist EXCEPT !.sinceClear = @ \o loc[p].batch, !.cleared = FALSE]
              IN  IF Len(pc[p]) = 1 THEN Returned(h, p) ELSE h
  /\ loc' = [loc EXCEPT ![p] = IF Len(pc[p]) = 1 THEN InitLoc
                                ELSE [@ EXCEPT !.tmp = <<>>, !.batch = <<>>]]
  /\ pc' = Return(p)
  /\ UNCHANGED <<appVars, now, tickPending, items, cmu, reaper, subscribers, rmu, store, heap,
                 nextId, open, nops>>

\* TestSpanRecorder.Clear
RecorderClear ==
  /\ RecorderLockFree
  /\ spans' = <<>>
  /\ hist' = [hist EXCEPT !.sinceClear = <<>>, !.cleared = TRUE]
  /\ UNCHANGED <<appVars, now, tickPending, items, cmu, reaper, subscribers, rmu, store, heap,
                 nextId, tmu, pc, loc, open, nops>>

\* TestSpanRecorder.Count
Count == Len(spans)

\* TestSpanRecorder.GetSpans
GetSpans == spans

\* TestSpanRecorder.GetSpansByName
GetSpansByNameBroken(name) ==
  LET sel == SelectSeq(spans, LAMBDA s : s.name = name)
  IN  [i \in 1..Len(sel) |-> sel[Len(sel) + 1 - i]]
GetSpansByName(name) == SelectSeq(spans, LAMBDA s : s.name = name)

\* the inner loop of GetSpansByOperation: some attribute is operation == op
HasOperationBroken(s, op) ==
  Len(s.attrs) >= 1 /\ s.attrs[1][1] = "operation" /\ s.attrs[1][2] = op
HasOperation(s, op) ==
  \E i \in 1..Len(s.attrs) : s.attrs[i][1] = "operation" /\ s.attrs[i][2] = op

\* TestSpanRecorder.GetSpansByOperation
GetSpansByOperation(op) == SelectSeq(spans, LAMBDA s : HasOperation(s, op))

\* span.End() with a synchronous exporter: the span goes to ExportSpans
EndSpanAs(p, span, l) ==
  /\ loc' = [loc EXCEPT ![p] = [l EXCEPT !.batch = <<span>>]]
  /\ open' = [open EXCEPT ![p] = Tail(@)]
  /\ hist' = [hist EXCEPT !.sent[p] = @ \o <<span>>]
  /\ pc' = Goto(p, "exp_lock")

EndSpan(p) == EndSpanAs(p, Head(open[p]), loc[p])

\* -------------------------------------------------------------- InMemoryCache
\* c.mu.RLock(): no writer holds the lock and none waits for it
WriterWaiting ==
  \/ reaper.pc = "sweep_lock"
  \/ \E q \in Procs : At(q, "set") \/ At(q, "del") \/ At(q, "clr")
CanRLockBroken == TRUE
CanRLock == cmu.w = NoProc /\ ~WriterWaiting

\* c.mu.Lock(): no writer and no reader holds the lock
CanLockBroken == TRUE
CanLock == cmu.w = NoProc /\ cmu.r = {}

\* time.Now().After(item.expireAt)
ExpiredBroken(t, item) == t >= item.expireAt
Expired(t, item) == t > item.expireAt

\* NewInMemoryCache: items: make(map[string]*cacheItem)
EmptyItems == [k \in CacheKeys |-> NoItem]

\* Clear: c.items = make(map[string]*cacheItem)
ClearedItemsBroken == items
ClearedItems == [k \in CacheKeys |-> NoItem]

\* Get: tracer.Start(ctx, "cache.get", ...), time.Sleep, c.mu.RLock()
CacheGet(p) ==
  /\ At(p, "get")
  /\ open' = Push(p, StartSpan("cache.get",
                 <<Attr("cache.key", loc[p].key), Attr("operation", "cache.read")>>))
  /\ CanRLock
  /\ cmu' = [cmu EXCEPT !.r = @ \cup {p}]
  /\ pc' = Goto(p, "get_read")
  /\ UNCHANGED <<appVars, now, tickPending, items, reaper, subscribers, rmu, store, heap,
                 nextId, spans, tmu, loc, nops, hist>>

\* Get: the lookup, the expiry check and the three return paths
CacheGetReadBroken(p) ==
  LET item == items[loc[p].key] IN
  /\ At(p, "get_read")
  /\ item # NoItem /\ Expired(now, item)
  /\ items' = [items EXCEPT ![loc[p].key] = NoItem]
  /\ open' = SetTop(p, <<Attr("cache.hit", "false"), Attr("cache.result", "expired")>>)
  /\ loc' = [loc EXCEPT ![p].cres = Nil, ![p].cerr = "key expired in cache",
                        ![p].readAt = now, ![p].setAt = hist.lastSet[loc[p].key].t0,
                        ![p].clr = hist.clearCalled]
  /\ pc' = Goto(p, "get_runlock")
  /\ UNCHANGED <<appVars, now, tickPending, cmu, reaper, subscribers, rmu, store, heap,
                 nextId, spans, tmu, nops, hist>>
CacheGetRead(p) ==
  LET item == items[loc[p].key] IN
  /\ At(p, "get_read")
  /\ IF item = NoItem
     THEN /\ open' = SetTop(p, <<Attr("cache.hit", "false"), Attr("cache.result", "miss")>>)
          /\ loc' = [loc EXCEPT ![p].cres = Nil, ![p].cerr = "key not found in cache",
                                ![p].readAt = now, ![p].setAt = hist.lastSet[loc[p].key].t0,
                                ![p].clr = hist.clearCalled]
     ELSE IF Expired(now, item)
     THEN /\ open' = SetTop(p, <<Attr("cache.hit", "false"), Attr("cache.result", "expired")>>)
          /\ loc' = [loc EXCEPT ![p].cres = Nil, ![p].cerr = "key expired in cache",
                                ![p].readAt = now, ![p].setAt = hist.lastSet[loc[p].key].t0,
                                ![p].clr = hist.clearCalled]
     ELSE /\ open' = SetTop(p, <<Attr("cache.hit", "true"), Attr("cache.result", "hit"),
                                 Attr("subscriber.id", IdStr(item.subscriber))>>)
          /\ loc' = [loc EXCEPT ![p].cres = item.subscriber, ![p].cerr = "",
                                ![p].readAt = now, ![p].setAt = hist.lastSet[loc[p].key].t0,
                                ![p].clr = hist.clearCalled]
  /\ pc' = Goto(p, "get_runlock")
  /\ UNCHANGED <<appVars, now, tickPending, items, cmu, reaper, subscribers, rmu, store, heap,
                 nextId, spans, tmu, nops, hist>>

\* Get: deferred c.mu.RUnlock(), then deferred span.End()
CacheGetRUnlockBroken(p) ==
  /\ At(p, "get_runlock")
  /\ EndSpan(p)
  /\ UNCHANGED <<appVars, now, tickPending, items, cmu, reaper, subscribers, rmu, store, heap,
                 nextId, spans, tmu, nops>>
CacheGetRUnlock(p) ==
  /\ At(p, "get_runlock")
  /\ cmu' = [cmu EXCEPT !.r = @ \ {p}]
  /\ EndSpan(p)
  /\ UNCHANGED <<appVars, now, tickPending, items, reaper, subscribers, rmu, store, heap,
                 nextId, spans, tmu, nops>>

\* Set: tracer.Start(ctx, "cache.set", ...), time.Sleep, c.mu.Lock()
CacheSet(p) ==
  /\ At(p, "set")
  /\ open' = Push(p, StartSpan("cache.set",
                 <<Attr("cache.key", loc[p].key),
                   Attr("subscriber.id", IdStr(loc[p].sub)),
                   Attr("operation", "cache.write"),
                   Attr("ttl", ToString(loc[p].ttl))>>))
  /\ CanLock
  /\ cmu' = [cmu EXCEPT !.w = p]
  /\ pc' = Goto(p, "set_write")
  /\ UNCHANGED <<appVars, now, tickPending, items, reaper, subscribers, rmu, store, heap,
                 nextId, spans, tmu, loc, nops, hist>>

\* Set: c.items[key] = &cacheItem{subscriber, time.Now().Add(ttl)}
CacheSetWriteBroken(p) ==
  /\ At(p, "set_write")
  /\ items' = IF items[loc[p].key] # NoItem THEN items
              ELSE [items EXCEPT ![loc[p].key] =
                      [subscriber |-> loc[p].sub, expireAt |-> now + loc[p].ttl]]
  /\ open' = SetTop(p, <<Attr("success", "true")>>)
  /\ loc' = [loc EXCEPT ![p].cerr = ""]
  /\ hist' = [hist EXCEPT !.lastSet[loc[p].key] = [t0 |-> now, d |-> loc[p].ttl, v |-> loc[p].sub],
                          !.removed = @ \ {loc[p].key},
                          !.everCached = @ \cup {loc[p].sub}]
  /\ pc' = Goto(p, "set_unlock")
  /\ UNCHANGED <<appVars, now, tickPending, cmu, reaper, subscribers, rmu, store, heap,
                 nextId, spans, tmu, nops>>
CacheSetWrite(p) ==
  /\ At(p, "set_write")
  /\ items' = [items EXCEPT ![loc[p].key] =
                 [subscriber |-> loc[p].sub, expireAt |-> now + loc[p].ttl]]
  /\ open' = SetTop(p, <<Attr("success", "true")>>)
  /\ loc' = [loc EXCEPT ![p].cerr = ""]
  /\ hist' = [hist EXCEPT !.lastSet[loc[p].key] = [t0 |-> now, d |-> loc[p].ttl, v |-> loc[p].sub],
                          !.removed = @ \ {loc[p].key},
                          !.everCached = @ \cup {loc[p].sub}]
  /\ pc' = Goto(p, "set_unlock")
  /\ UNCHANGED <<appVars, now, tickPending, cmu, reaper, subscribers, rmu, store, heap,
                 nextId, spans, tmu, nops>>

\* Set: deferred c.mu.Unlock(), then deferred span.End()
CacheSetUnlock(p) ==
  /\ At(p, "set_unlock")
  /\ cmu' = [cmu EXCEPT !.w = NoProc]
  /\ EndSpan(p)
  /\ UNCHANGED <<appVars, now, tickPending, items, reaper, subscribers, rmu, store, heap,
                 nextId, spans, tmu, nops>>

\* Delete: the attributes cache.delete starts its span with
CacheDeleteAttrsBroken(key) == <<Attr("cache.key", key), Attr("operation", "cache.delete")>>
CacheDeleteAttrs(key) == <<Attr("cache.key", key), Attr("operation", "cache.write")>>

\* Delete: tracer.Start(ctx, "cache.delete", ...), c.mu.Lock()
CacheDelete(p) ==
  /\ At(p, "del")
  /\ open' = Push(p, StartSpan("cache.delete", CacheDeleteAttrs(loc[p].key)))
  /\ CanLock
  /\ cmu' = [cmu EXCEPT !.w = p]
  /\ pc' = Goto(p, "del_write")
  /\ UNCHANGED <<appVars, now, tickPending, items, reaper, subscribers, rmu, store, heap,
                 nextId, spans, tmu, loc, nops, hist>>

\* Delete: _, exists := c.items[key]; delete(c.items, key)
CacheDeleteWriteBroken(p) ==
  LET exists == items[loc[p].key] # NoItem /\ ~Expired(now, items[loc[p].key]) IN
  /\ At(p, "del_write")
  /\ items' = [items EXCEPT ![loc[p].key] = NoItem]
  /\ open' = SetTop(p, <<Attr("key.existed", BoolStr(exists)), Attr("success", "true")>>)
  /\ loc' = [loc EXCEPT ![p].cerr = ""]
  /\ hist' = [hist EXCEPT !.lastSet[loc[p].key] = NoSet]
  /\ pc' = Goto(p, "del_unlock")
  /\ UNCHANGED <<appVars, now, tickPending, cmu, reaper, subscribers, rmu, store, heap,
                 nextId, spans, tmu, nops>>
CacheDeleteWrite(p) ==
  LET exists == items[loc[p].key] # NoItem IN
  /\ At(p, "del_write")
  /\ items' = [items EXCEPT ![loc[p].key] = NoItem]
  /\ open' = SetTop(p, <<Attr("key.existed", BoolStr(exists)), Attr("success", "true")>>)
  /\ loc' = [loc EXCEPT ![p].cerr = ""]
  /\ hist' = [hist EXCEPT !.lastSet[loc[p].key] = NoSet]
  /\ pc' = Goto(p, "del_unlock")
  /\ UNCHANGED <<appVars, now, tickPending, cmu, reaper, subscribers, rmu, store, heap,
                 nextId, spans, tmu, nops>>

\* Delete: deferred c.mu.Unlock(), then deferred span.End()
CacheDeleteUnlock(p) ==
  /\ At(p, "del_unlock")
  /\ cmu' = [cmu EXCEPT !.w = NoProc]
  /\ EndSpan(p)
  /\ UNCHANGED <<appVars, now, tickPending, items, reaper, subscribers, rmu, store, heap,
                 nextId, spans, tmu, nops>>

\* Clear: tracer.Start(ctx, "cache.clear", ...), c.mu.Lock()
CacheClear(p) ==
  /\ At(p, "clr")
  /\ open' = Push(p, StartSpan("cache.clear", <<Attr("operation", "cache.write")>>))
  /\ CanLock
  /\ cmu' = [cmu EXCEPT !.w = p]
  /\ pc' = Goto(p, "clr_write")
  /\ UNCHANGED <<appVars, now, tickPending, items, reaper, subscribers, rmu, store, heap,
                 nextId, spans, tmu, loc, nops, hist>>

\* Clear: itemCount := len(c.items); c.items = make(map[string]*cacheItem)
CacheClearWrite(p) ==
  LET itemCount == Cardinality({k \in CacheKeys : items[k] # NoItem}) IN
  /\ At(p, "clr_write")
  /\ items' = ClearedItems
  /\ open' = SetTop(p, <<Attr("items.cleared", ToString(itemCount)), Attr("success", "true")>>)
  /\ loc' = [loc EXCEPT ![p].cerr = ""]
  /\ hist' = [hist EXCEPT !.lastSet = [k \in CacheKeys |-> NoSet]]
  /\ pc' = Goto(p, "clr_unlock")
  /\ UNCHANGED <<appVars, now, tickPending, cmu, reaper, subscribers, rmu, store, heap,
                 nextId, spans, tmu, nops>>

\* Clear: deferred c.mu.Unlock(), then deferred span.End()
CacheClearUnlock(p) ==
  /\ At(p, "clr_unlock")
  /\ cmu' = [cmu EXCEPT !.w = NoProc]
  /\ EndSpan(p)
  /\ UNCHANGED <<appVars, now, tickPending, items, reaper, subscribers, rmu, store, heap,
                 nextId, spans, tmu, nops>>

\* ------------------------------------------------ InMemorySubscriberRepository
\* r.mu.RLock(): no writer holds the lock and none waits for it
RepoWriterWaiting == \E q \in Procs : At(q, "rc") \/ At(q, "ru") \/ At(q, "rd")
RepoCanRLock == rmu.w = NoProc /\ ~RepoWriterWaiting

\* r.mu.Lock(): no writer and no reader holds the lock
RepoCanLock == rmu.w = NoProc /\ rmu.r = {}

\* Create: tracer.Start(ctx, "subscriber.repository.create", ...), time.Sleep, r.mu.Lock()
RepoCreate(p) ==
  /\ At(p, "rc")
  /\ RepoCanLock
  /\ rmu' = [rmu EXCEPT !.w = p]
  /\ open' = Push(p, StartSpan("subscriber.repository.create",
                 <<Attr("subscriber.id", IdStr(loc[p].rsub)),
                   Attr("subscriber.email", heap[loc[p].rsub].email),
                   Attr("operation", "database.write")>>))
  /\ pc' = Goto(p, "rc_write")
  /\ UNCHANGED <<appVars, timeVars, cacheVars, subscribers, store, heap, nextId, recVars, loc, nops, hist>>

\* Create: the duplicate check and r.subscribers[subscriber.ID] = subscriber
RepoCreateWrite(p) ==
  LET id == loc[p].rsub IN
  /\ At(p, "rc_write")
  /\ IF subscribers[id] # Nil
     THEN /\ open' = ErrTop(p)
          /\ loc' = [loc EXCEPT ![p].rerr = "already exists"]
          /\ UNCHANGED subscribers
     ELSE /\ subscribers' = [subscribers EXCEPT ![id] = id]
          /\ open' = SetTop(p, <<Attr("success", "true")>>)
          /\ loc' = [loc EXCEPT ![p].rerr = ""]
  /\ pc' = Goto(p, "rc_unlock")
  /\ UNCHANGED <<appVars, timeVars, cacheVars, rmu, store, heap, nextId, recVars, nops, hist>>

\* the deferred r.mu.Unlock() of Create, Update and Delete, then the deferred span.End()
RepoUnlock(p) ==
  /\ At(p, "rc_unlock") \/ At(p, "ru_unlock") \/ At(p, "rd_unlock")
  /\ rmu' = [rmu EXCEPT !.w = NoProc]
  /\ EndSpan(p)
  /\ UNCHANGED <<appVars, timeVars, cacheVars, subscribers, store, heap, nextId, recVars, nops>>

\* the deferred r.mu.RUnlock() of GetByID and GetAll, then the deferred span.End()
RepoRUnlock(p) ==
  /\ At(p, "rg_runlock") \/ At(p, "ra_runlock")
  /\ rmu' = [rmu EXCEPT !.r = @ \ {p}]
  /\ EndSpan(p)
  /\ UNCHANGED <<appVars, timeVars, cacheVars, subscribers, store, heap, nextId, recVars, nops>>

\* GetByID: uuid.Parse, tracer.Start(ctx, "subscriber.repository.get_by_id", ...),
\* time.Sleep, r.mu.RLock()
RepoGetByID(p) ==
  /\ At(p, "rg")
  /\ IF ParseUUID(loc[p].rid) = Nil
     THEN /\ loc' = [loc EXCEPT ![p].rres = Nil, ![p].rerr = "invalid UUID format"]
          /\ pc' = Return(p)
          /\ UNCHANGED <<rmu, open>>
     ELSE /\ RepoCanRLock
          /\ rmu' = [rmu EXCEPT !.r = @ \cup {p}]
          /\ open' = Push(p, StartSpan("subscriber.repository.get_by_id",
                         <<Attr("subscriber.id", loc[p].rid),
                           Attr("operation", "database.read")>>))
          /\ pc' = Goto(p, "rg_read")
          /\ UNCHANGED loc
  /\ UNCHANGED <<appVars, timeVars, cacheVars, subscribers, store, heap, nextId, recVars, nops, hist>>

\* GetByID: subscriber, exists := r.subscribers[parsedID]
RepoGetByIDRead(p) ==
  LET id == ParseUUID(loc[p].rid) IN
  /\ At(p, "rg_read")
  /\ IF subscribers[id] = Nil
     THEN /\ open' = ErrTop(p)
          /\ loc' = [loc EXCEPT ![p].rres = Nil, ![p].rerr = "not found"]
     ELSE /\ open' = SetTop(p, <<Attr("success", "true")>>)
          /\ loc' = [loc EXCEPT ![p].rres = subscribers[id], ![p].rerr = ""]
  /\ pc' = Goto(p, "rg_runlock")
  /\ UNCHANGED <<appVars, timeVars, cacheVars, repoVars, recVars, nops, hist>>

\* GetAll: tracer.Start(ctx, "subscriber.repository.get_all", ...), time.Sleep, r.mu.RLock()
RepoGetAll(p) ==
  /\ At(p, "ra")
  /\ RepoCanRLock
  /\ rmu' = [rmu EXCEPT !.r = @ \cup {p}]
  /\ open' = Push(p, StartSpan("subscriber.repository.get_all",
                 <<Attr("operation", "database.read")>>))
  /\ pc' = Goto(p, "ra_read")
  /\ UNCHANGED <<appVars, timeVars, cacheVars, subscribers, store, heap, nextId, recVars, loc, nops, hist>>

\* GetAll: the range over r.subscribers
RepoGetAllRead(p) ==
  LET all == {id \in Ids : subscribers[id] # Nil} IN
  /\ At(p, "ra_read")
  /\ open' = SetTop(p, <<Attr("subscriber.count", ToString(Cardinality(all))),
                         Attr("success", "true")>>)
  /\ loc' = [loc EXCEPT ![p].rall = all, ![p].rerr = ""]
  /\ pc' = Goto(p, "ra_runlock")
  /\ UNCHANGED <<appVars, timeVars, cacheVars, repoVars, recVars, nops, hist>>

\* Update: tracer.Start(ctx, "subscriber.repository.update", ...), time.Sleep, r.mu.Lock()
RepoUpdate(p) ==
  /\ At(p, "ru")
  /\ RepoCanLock
  /\ rmu' = [rmu EXCEPT !.w = p]
  /\ open' = Push(p, StartSpan("subscriber.repository.update",
                 <<Attr("subscriber.id", IdStr(loc[p].rsub)),
                   Attr("operation", "database.write")>>))
  /\ pc' = Goto(p, "ru_write")
  /\ UNCHANGED <<appVars, timeVars, cacheVars, subscribers, store, heap, nextId, recVars, loc, nops, hist>>

\* Update: the existence check and r.subscribers[subscriber.ID] = subscriber
RepoUpdateWrite(p) ==
  LET id == loc[p].rsub IN
  /\ At(p, "ru_write")
  /\ IF subscribers[id] = Nil
     THEN /\ open' = ErrTop(p)
          /\ loc' = [loc EXCEPT ![p].rerr = "not found"]
          /\ UNCHANGED subscribers
     ELSE /\ subscribers' = [subscribers EXCEPT ![id] = id]
          /\ open' = SetTop(p, <<Attr("success", "true")>>)
          /\ loc' = [loc EXCEPT ![p].rerr = ""]
  /\ pc' = Goto(p, "ru_unlock")
  /\ UNCHANGED <<appVars, timeVars, cacheVars, rmu, store, heap, nextId, recVars, nops, hist>>

\* Delete: uuid.Parse, tracer.Start(ctx, "subscriber.repository.delete", ...),
\* time.Sleep, r.mu.Lock()
RepoDelete(p) ==
  /\ At(p, "rd")
  /\ IF ParseUUID(loc[p].rid) = Nil
     THEN /\ loc' = [loc EXCEPT ![p].rerr = "invalid UUID format"]
          /\ pc' = Return(p)
          /\ UNCHANGED <<rmu, open>>
     ELSE /\ RepoCanLock
          /\ rmu' = [rmu EXCEPT !.w = p]
          /\ open' = Push(p, StartSpan("subscriber.repository.delete",
                         <<Attr("subscriber.id", loc[p].rid),
                           Attr("operation", "database.write")>>))
          /\ pc' = Goto(p, "rd_write")
          /\ UNCHANGED loc
  /\ UNCHANGED <<appVars, timeVars, cacheVars, subscribers, store, heap, nextId, recVars, nops, hist>>

\* Delete: the existence check and delete(r.subscribers, parsedID)
RepoDeleteWrite(p) ==
  LET id == ParseUUID(loc[p].rid) IN
  /\ At(p, "rd_write")
  /\ IF subscribers[id] = Nil
     THEN /\ open' = ErrTop(p)
          /\ loc' = [loc EXCEPT ![p].rerr = "not found"]
          /\ UNCHANGED subscribers
     ELSE /\ subscribers' = [subscribers EXCEPT ![id] = Nil]
          /\ open' = SetTop(p, <<Attr("success", "true")>>)
          /\ loc' = [loc EXCEPT ![p].rerr = ""]
  /\ pc' = Goto(p, "rd_unlock")
  /\ UNCHANGED <<appVars, timeVars, cacheVars, rmu, store, heap, nextId, recVars, nops, hist>>

RepoStep(p) ==
  \/ RepoCreate(p) \/ RepoCreateWrite(p)
  \/ RepoGetByID(p) \/ RepoGetByIDRead(p)
  \/ RepoGetAll(p) \/ RepoGetAllRead(p)
  \/ RepoUpdate(p) \/ RepoUpdateWrite(p)
  \/ RepoDelete(p) \/ RepoDeleteWrite(p)
  \/ RepoUnlock(p) \/ RepoRUnlock(p)

\* --------------------------------------------------- DaprSubscriberRepository
StoreName == "statestore"

\* client.GetState of a key that was never saved: an empty value
NoData == [id |-> Nil, email |-> "", name |-> ""]

\* json.Marshal(subscriber): the stored form of a subscriber
Marshal(id) == [id |-> id, email |-> heap[id].email, name |-> heap[id].name]

\* Create: the span, json.Marshal and client.SaveState, which succeeds or fails
DaprCreate(p) ==
  LET id == loc[p].rsub
      span == StartSpan("subscriber.repository.create",
                 <<Attr("subscriber.id", IdStr(id)),
                   Attr("subscriber.email", heap[id].email),
                   Attr("operation", "database.write"),
                   Attr("dapr.store", StoreName)>>) IN
  /\ At(p, "dc")
  /\ \/ /\ store' = [store EXCEPT ![IdStr(id)] = Marshal(id)]
        /\ open' = Push(p, SetAttributes(span, <<Attr("success", "true")>>))
        /\ loc' = [loc EXCEPT ![p].rerr = ""]
     \/ /\ open' = Push(p, RecordError(span))
        /\ loc' = [loc EXCEPT ![p].rerr = "failed to save subscriber to dapr state store"]
        /\ UNCHANGED store
  /\ pc' = Goto(p, "d_end")
  /\ UNCHANGED <<appVars, timeVars, cacheVars, subscribers, rmu, heap, nextId, recVars, nops, hist>>

\* the deferred span.End() of the Dapr repository's methods
DaprEnd(p) ==
  /\ At(p, "d_end")
  /\ EndSpan(p)
  /\ UNCHANGED <<appVars, timeVars, cacheVars, repoVars, recVars, nops>>

\* GetByID: the span, client.GetState (which succeeds or fails), the empty-value check
\* and json.Unmarshal
DaprGetByID(p) ==
  LET span == StartSpan("subscriber.repository.get_by_id",
                 <<Attr("subscriber.id", loc[p].rid),
                   Attr("operation", "database.read"),
                   Attr("dapr.store", StoreName)>>) IN
  /\ At(p, "dg")
  /\ \/ /\ open' = Push(p, RecordError(span))
        /\ loc' = [loc EXCEPT ![p].rres = Nil,
                              ![p].rerr = "failed to get subscriber from dapr state store"]
     \/ /\ store[loc[p].rid] = NoData
        /\ open' = Push(p, SetAttributes(span, <<Attr("found", "false")>>))
        /\ loc' = [loc EXCEPT ![p].rres = Nil, ![p].rerr = "subscriber not found"]
     \/ /\ store[loc[p].rid] # NoData
        /\ open' = Push(p, SetAttributes(span,
                     <<Attr("success", "true"), Attr("found", "true"),
                       Attr("subscriber.email", store[loc[p].rid].email)>>))
        /\ loc' = [loc EXCEPT ![p].rres = store[loc[p].rid].id, ![p].rerr = ""]
  /\ pc' = Goto(p, "d_end")
  /\ UNCHANGED <<appVars, timeVars, cacheVars, repoVars, recVars, nops, hist>>

\* GetAll: the span, the error attribute and the unsupported-operation error
DaprGetAll(p) ==
  /\ At(p, "da")
  /\ open' = Push(p, StartSpan("subscriber.repository.get_all",
                 <<Attr("operation", "database.read"),
                   Attr("dapr.store", StoreName),
                   Attr("error", "get_all not supported by dapr state store")>>))
  /\ loc' = [loc EXCEPT ![p].rres = Nil, ![p].rerr = "GetAll operation not supported"]
  /\ pc' = Goto(p, "d_end")
  /\ UNCHANGED <<appVars, timeVars, cacheVars, repoVars, recVars, nops, hist>>

\* Update: the span, then r.GetByID(ctx, subscriber.ID.String())
DaprUpdate(p) ==
  /\ At(p, "du")
  /\ open' = Push(p, StartSpan("subscriber.repository.update",
                 <<Attr("subscriber.id", IdStr(loc[p].rsub)),
                   Attr("subscriber.email", heap[loc[p].rsub].email),
                   Attr("operation", "database.write"),
                   Attr("dapr.store", StoreName)>>))
  /\ loc' = [loc EXCEPT ![p].rid = IdStr(loc[p].rsub)]
  /\ pc' = Call(p, "dg", "du_save")
  /\ UNCHANGED <<appVars, timeVars, cacheVars, repoVars, recVars, nops, hist>>

\* Update: the result of GetByID, json.Marshal and client.SaveState
DaprUpdateSave(p) ==
  LET id == loc[p].rsub IN
  /\ At(p, "du_save")
  /\ IF loc[p].rerr # ""
     THEN /\ open' = ErrTop(p)
          /\ UNCHANGED <<store, loc>>
     ELSE \/ /\ store' = [store EXCEPT ![IdStr(id)] = Marshal(id)]
             /\ open' = SetTop(p, <<Attr("success", "true")>>)
             /\ loc' = [loc EXCEPT ![p].rerr = ""]
          \/ /\ open' = ErrTop(p)
             /\ loc' = [loc EXCEPT ![p].rerr = "failed to update subscriber in dapr state store"]
             /\ UNCHANGED store
  /\ pc' = Goto(p, "d_end")
  /\ UNCHANGED <<appVars, timeVars, cacheVars, subscribers, rmu, heap, nextId, recVars, nops, hist>>

\* Delete: the span, then r.GetByID(ctx, id)
DaprDelete(p) ==
  /\ At(p, "dd")
  /\ open' = Push(p, StartSpan("subscriber.repository.delete",
                 <<Attr("subscriber.id", loc[p].rid),
                   Attr("operation", "database.delete"),
                   Attr("dapr.store", StoreName)>>))
  /\ pc' = Call(p, "dg", "dd_del")
  /\ UNCHANGED <<appVars, timeVars, cacheVars, repoVars, recVars, loc, nops, hist>>

\* Delete: the result of GetByID and client.DeleteState
DaprDeleteState(p) ==
  /\ At(p, "dd_del")
  /\ IF loc[p].rerr # ""
     THEN /\ open' = ErrTop(p)
          /\ UNCHANGED <<store, loc>>
     ELSE \/ /\ store' = [store EXCEPT ![loc[p].rid] = NoData]
             /\ open' = SetTop(p, <<Attr("success", "true")>>)
             /\ loc' = [loc EXCEPT ![p].rerr = ""]
          \/ /\ open' = ErrTop(p)
             /\ loc' = [loc EXCEPT ![p].rerr = "failed to delete subscriber from dapr state store"]
             /\ UNCHANGED store
  /\ pc' = Goto(p, "d_end")
  /\ UNCHANGED <<appVars, timeVars, cacheVars, subscribers, rmu, heap, nextId, recVars, nops, hist>>

DaprStep(p) ==
  \/ DaprCreate(p) \/ DaprGetByID(p) \/ DaprGetAll(p)
  \/ DaprUpdate(p) \/ DaprUpdateSave(p)
  \/ DaprDelete(p) \/ DaprDeleteState(p)
  \/ DaprEnd(p)

\* ----------------------------------------------------------- SubscriberService
\* s.repo.<method>: the entry of the method in the repository the service holds
RepoEntry(p, m) == loc[p].repo \o m

\* s.cache.Set and s.cache.Delete: the entry of the method in the cache the service holds
CacheEntry(p, m) == loc[p].cache \o m

\* CreateSubscriber: the span, models.NewSubscriber, then s.repo.Create
ServiceCreate(p) ==
  LET id == nextId IN
  /\ At(p, "sc")
  /\ open' = Push(p, StartSpan("subscriber.service.create",
                 <<Attr("subscriber.email", loc[p].email), Attr("subscriber.name", "n")>>))
  /\ heap' = [heap EXCEPT ![id] = [email |-> loc[p].email, name |-> "n"]]
  /\ nextId' = nextId + 1
  /\ loc' = [loc EXCEPT ![p].id = id, ![p].rsub = id]
  /\ hist' = [hist EXCEPT !.createdAt[id] = now]
  /\ pc' = Call(p, RepoEntry(p, "c"), "sc_created")
  /\ UNCHANGED <<appVars, timeVars, cacheVars, subscribers, rmu, store, recVars, nops>>

\* CreateSubscriber: the result of s.repo.Create, then s.cache.Set with 5 minutes
ServiceCreateCacheBroken(p) ==
  /\ At(p, "sc_created")
  /\ pc' = Goto(p, "sc_cached")
  /\ UNCHANGED <<appVars, timeVars, cacheVars, repoVars, recVars, loc, open, nops, hist>>
ServiceCreateCache(p) ==
  /\ At(p, "sc_created")
  /\ IF loc[p].rerr # ""
     THEN EndSpanAs(p, RecordError(Head(open[p])),
                    [loc[p] EXCEPT !.res = Nil, !.err = loc[p].rerr])
     ELSE /\ loc' = [loc EXCEPT ![p].key = GenerateCacheKey(loc[p].id),
                                ![p].sub = loc[p].id, ![p].ttl = ServiceTTL]
          /\ pc' = Call(p, CacheEntry(p, "set"), "sc_cached")
          /\ UNCHANGED <<open, hist>>
  /\ UNCHANGED <<appVars, timeVars, cacheVars, repoVars, recVars, nops>>

\* CreateSubscriber: span.SetAttributes, return subscriber, nil, the deferred span.End()
ServiceCreateDone(p) ==
  /\ At(p, "sc_cached")
  /\ EndSpanAs(p, SetAttributes(Head(open[p]),
                    <<Attr("subscriber.id", IdStr(loc[p].id)), Attr("success", "true")>>),
               [loc[p] EXCEPT !.res = loc[p].id, !.err = ""])
  /\ UNCHANGED <<appVars, timeVars, cacheVars, repoVars, recVars, nops>>

\* GetSubscriber: the span, cache.GenerateCacheKey, then s.cache.Get
ServiceGet(p) ==
  /\ At(p, "sg")
  /\ open' = Push(p, StartSpan("subscriber.service.get",
                 <<Attr("subscriber.id", IdStr(loc[p].id))>>))
  /\ loc' = [loc EXCEPT ![p].key = GenerateCacheKey(loc[p].id)]
  /\ pc' = Call(p, "get", "sg_got")
  /\ UNCHANGED <<appVars, timeVars, cacheVars, repoVars, recVars, nops, hist>>

\* GetSubscriber: s.repo.GetByID after s.cache.Get returned an error
ServiceGetMissed(p) ==
  /\ loc' = [loc EXCEPT ![p].rid = IdStr(loc[p].id)]
  /\ pc' = Call(p, RepoEntry(p, "g"), "sg_loaded")
  /\ UNCHANGED <<open, hist>>

\* GetSubscriber: the result of s.cache.Get; a hit returns the cached subscriber
ServiceGetCachedBroken(p) ==
  /\ At(p, "sg_got")
  /\ ServiceGetMissed(p)
  /\ UNCHANGED <<appVars, timeVars, cacheVars, repoVars, recVars, nops>>
ServiceGetCached(p) ==
  /\ At(p, "sg_got")
  /\ IF loc[p].cerr = ""
     THEN EndSpanAs(p, SetAttributes(Head(open[p]),
                         <<Attr("cache.hit", "true"), Attr("success", "true")>>),
                    [loc[p] EXCEPT !.res = loc[p].cres, !.err = ""])
     ELSE ServiceGetMissed(p)
  /\ UNCHANGED <<appVars, timeVars, cacheVars, repoVars, recVars, nops>>

\* GetSubscriber: the result of s.repo.GetByID, then s.cache.Set with 5 minutes
ServiceGetLoadedBroken(p) ==
  /\ At(p, "sg_loaded")
  /\ loc' = [loc EXCEPT ![p].sub = loc[p].rres, ![p].ttl = ServiceTTL]
  /\ pc' = Call(p, CacheEntry(p, "set"), "sg_cached")
  /\ UNCHANGED <<appVars, timeVars, cacheVars, repoVars, recVars, open, nops, hist>>
ServiceGetLoaded(p) ==
  /\ At(p, "sg_loaded")
  /\ IF loc[p].rerr # ""
     THEN EndSpanAs(p, RecordError(Head(open[p])),
                    [loc[p] EXCEPT !.res = Nil, !.err = loc[p].rerr])
     ELSE /\ loc' = [loc EXCEPT ![p].sub = loc[p].rres, ![p].ttl = ServiceTTL]
          /\ pc' = Call(p, CacheEntry(p, "set"), "sg_cached")
          /\ UNCHANGED <<open, hist>>
  /\ UNCHANGED <<appVars, timeVars, cacheVars, repoVars, recVars, nops>>

\* GetSubscriber: span.SetAttributes, return subscriber, nil, the deferred span.End()
ServiceGetDone(p) ==
  /\ At(p, "sg_cached")
  /\ EndSpanAs(p, SetAttributes(Head(open[p]),
                    <<Attr("cache.hit", "false"), Attr("success", "true")>>),
               [loc[p] EXCEPT !.res = loc[p].rres, !.err = ""])
  /\ UNCHANGED <<appVars, timeVars, cacheVars, repoVars, recVars, nops>>

ServiceStep(p) ==
  \/ ServiceCreate(p) \/ ServiceCreateCache(p) \/ ServiceCreateDone(p)
  \/ ServiceGet(p) \/ ServiceGetCached(p) \/ ServiceGetLoaded(p) \/ ServiceGetDone(p)

\* GetAllSubscribers: the span, then s.repo.GetAll
ServiceGetAll(p) ==
  /\ At(p, "sa")
  /\ open' = Push(p, StartSpan("subscriber.service.get_all", <<>>))
  /\ pc' = Call(p, RepoEntry(p, "a"), "sa_done")
  /\ UNCHANGED <<appVars, timeVars, cacheVars, repoVars, recVars, loc, nops, hist>>

\* GetAllSubscribers: the result of s.repo.GetAll, return, the deferred span.End()
ServiceGetAllDone(p) ==
  /\ At(p, "sa_done")
  /\ IF loc[p].rerr # ""
     THEN EndSpanAs(p, RecordError(Head(open[p])),
                    [loc[p] EXCEPT !.rall = {}, !.err = loc[p].rerr])
     ELSE EndSpanAs(p, SetAttributes(Head(open[p]),
                         <<Attr("subscriber.count", ToString(Cardinality(loc[p].rall))),
                           Attr("success", "true")>>),
                    [loc[p] EXCEPT !.err = ""])
  /\ UNCHANGED <<appVars, timeVars, cacheVars, repoVars, recVars, nops>>

\* UpdateSubscriber: the span, then s.repo.GetByID
ServiceUpdate(p) ==
  /\ At(p, "su")
  /\ open' = Push(p, StartSpan("subscriber.service.update",
                 <<Attr("subscriber.id", IdStr(loc[p].id))>>))
  /\ loc' = [loc EXCEPT ![p].rid = IdStr(loc[p].id)]
  /\ pc' = Call(p, RepoEntry(p, "g"), "su_found")
  /\ UNCHANGED <<appVars, timeVars, cacheVars, repoVars, recVars, nops, hist>>

\* UpdateSubscriber: the result of s.repo.GetByID; existing.Email = req.Email,
\* existing.Name = req.Name on the object it returned, then s.repo.Update
ServiceUpdateFound(p) ==
  /\ At(p, "su_found")
  /\ IF loc[p].rerr # ""
     THEN /\ EndSpanAs(p, RecordError(Head(open[p])),
                       [loc[p] EXCEPT !.res = Nil, !.err = loc[p].rerr])
          /\ UNCHANGED heap
     ELSE /\ heap' = [heap EXCEPT ![loc[p].rres] = [email |-> loc[p].email, name |-> "n"]]
          /\ loc' = [loc EXCEPT ![p].rsub = loc[p].rres]
          /\ pc' = Call(p, RepoEntry(p, "u"), "su_updated")
          /\ UNCHANGED <<open, hist>>
  /\ UNCHANGED <<appVars, timeVars, cacheVars, subscribers, rmu, store, nextId, recVars, nops>>

\* UpdateSubscriber: the result of s.repo.Update, then s.cache.Delete
ServiceUpdateInvalidateBroken(p) ==
  /\ At(p, "su_updated")
  /\ pc' = Goto(p, "su_done")
  /\ UNCHANGED <<appVars, timeVars, cacheVars, repoVars, recVars, loc, open, nops, hist>>
ServiceUpdateInvalidate(p) ==
  /\ At(p, "su_updated")
  /\ IF loc[p].rerr # ""
     THEN EndSpanAs(p, RecordError(Head(open[p])),
                    [loc[p] EXCEPT !.res = Nil, !.err = loc[p].rerr])
     ELSE /\ loc' = [loc EXCEPT ![p].key = GenerateCacheKey(loc[p].id)]
          /\ pc' = Call(p, CacheEntry(p, "del"), "su_done")
          /\ UNCHANGED <<open, hist>>
  /\ UNCHANGED <<appVars, timeVars, cacheVars, repoVars, recVars, nops>>

\* UpdateSubscriber: span.SetAttributes, return existing, nil, the deferred span.End()
ServiceUpdateDoneBroken(p) ==
  /\ At(p, "su_done")
  /\ IF loc[p].cerr # ""
     THEN EndSpanAs(p, RecordError(Head(open[p])),
                    [loc[p] EXCEPT !.res = Nil, !.err = loc[p].cerr])
     ELSE EndSpanAs(p, SetAttributes(Head(open[p]), <<Attr("success", "true")>>),
                    [loc[p] EXCEPT !.res = loc[p].rsub, !.err = ""])
  /\ UNCHANGED <<appVars, timeVars, cacheVars, repoVars, recVars, nops>>
ServiceUpdateDone(p) ==
  /\ At(p, "su_done")
  /\ EndSpanAs(p, SetAttributes(Head(open[p]), <<Attr("success", "true")>>),
               [loc[p] EXCEPT !.res = loc[p].rsub, !.err = ""])
  /\ UNCHANGED <<appVars, timeVars, cacheVars, repoVars, recVars, nops>>

\* DeleteSubscriber: the span, then s.repo.Delete
ServiceDelete(p) ==
  /\ At(p, "sd")
  /\ open' = Push(p, StartSpan("subscriber.service.delete",
                 <<Attr("subscriber.id", IdStr(loc[p].id))>>))
  /\ loc' = [loc EXCEPT ![p].rid = IdStr(loc[p].id)]
  /\ pc' = Call(p, RepoEntry(p, "d"), "sd_deleted")
  /\ UNCHANGED <<appVars, timeVars, cacheVars, repoVars, recVars, nops, hist>>

\* DeleteSubscriber: the result of s.repo.Delete, then s.cache.Delete
ServiceDeleteInvalidateBroken(p) ==
  /\ At(p, "sd_deleted")
  /\ loc' = [loc EXCEPT ![p].key = GenerateCacheKey(loc[p].id)]
  /\ pc' = Call(p, CacheEntry(p, "del"), "sd_done")
  /\ UNCHANGED <<appVars, timeVars, cacheVars, repoVars, recVars, open, nops, hist>>
ServiceDeleteInvalidate(p) ==
  /\ At(p, "sd_deleted")
  /\ IF loc[p].rerr # ""
     THEN EndSpanAs(p, RecordError(Head(open[p])), [loc[p] EXCEPT !.err = loc[p].rerr])
     ELSE /\ loc' = [loc EXCEPT ![p].key = GenerateCacheKey(loc[p].id)]
          /\ pc' = Call(p, CacheEntry(p, "del"), "sd_done")
          /\ UNCHANGED <<open, hist>>
  /\ UNCHANGED <<appVars, timeVars, cacheVars, repoVars, recVars, nops>>

\* DeleteSubscriber: span.SetAttributes, return nil, the deferred span.End()
ServiceDeleteDone(p) ==
  /\ At(p, "sd_done")
  /\ EndSpanAs(p, SetAttributes(Head(open[p]), <<Attr("success", "true")>>),
               [loc[p] EXCEPT !.err = ""])
  /\ UNCHANGED <<appVars, timeVars, cacheVars, repoVars, recVars, nops>>

ServiceUpdateStep(p) ==
  \/ ServiceUpdate(p) \/ ServiceUpdateFound(p)
  \/ ServiceUpdateInvalidate(p) \/ ServiceUpdateDone(p)

ServiceDeleteStep(p) ==
  ServiceDelete(p) \/ ServiceDeleteInvalidate(p) \/ ServiceDeleteDone(p)

ServiceGetAllStep(p) == ServiceGetAll(p) \/ ServiceGetAllDone(p)

\* ------------------------------------------------------------- the reaper
InitReaper == [pc |-> "idle", now |-> 0, todo |-> {}]

\* cleanup: for range ticker.C
ReaperWake ==
  /\ reaper.pc = "idle"
  /\ tickPending
  /\ tickPending' = FALSE
  /\ reaper' = [reaper EXCEPT !.pc = "sweep_lock"]
  /\ UNCHANGED <<appVars, now, items, cmu, subscribers, rmu, store, heap,
                 nextId, spans, tmu, pc, loc, open, nops, hist>>

\* cleanup: c.mu.Lock(); now := time.Now(); the range over c.items begins
ReaperLock ==
  /\ reaper.pc = "sweep_lock"
  /\ CanLock
  /\ cmu' = [cmu EXCEPT !.w = ReaperId]
  /\ reaper' = [pc |-> "sweep", now |-> now, todo |-> {k \in CacheKeys : items[k] # NoItem}]
  /\ UNCHANGED <<appVars, now, tickPending, items, subscribers, rmu, store, heap,
                 nextId, spans, tmu, pc, loc, open, nops, hist>>

\* cleanup: one iteration of the range: if now.After(item.expireAt) { delete(c.items, key) }
ReaperStepBroken ==
  /\ reaper.pc = "sweep"
  /\ \E k \in reaper.todo :
       /\ reaper' = [reaper EXCEPT !.todo = @ \ {k}]
       /\ items' = [items EXCEPT ![k] = NoItem]
       /\ hist' = [hist EXCEPT !.removed = @ \cup {k}]
  /\ UNCHANGED <<appVars, now, tickPending, cmu, subscribers, rmu, store, heap,
                 nextId, spans, tmu, pc, loc, open, nops>>
ReaperStep ==
  /\ reaper.pc = "sweep"
  /\ \E k \in reaper.todo :
       /\ reaper' = [reaper EXCEPT !.todo = @ \ {k}]
       /\ IF items[k] # NoItem /\ Expired(reaper.now, items[k])
          THEN /\ items' = [items EXCEPT ![k] = NoItem]
               /\ hist' = [hist EXCEPT !.removed = @ \cup {k}]
          ELSE UNCHANGED <<items, hist>>
  /\ UNCHANGED <<appVars, now, tickPending, cmu, subscribers, rmu, store, heap,
                 nextId, spans, tmu, pc, loc, open, nops>>

\* cleanup: the range is over; c.mu.Unlock()
ReaperUnlock ==
  /\ reaper.pc = "sweep"
  /\ reaper.todo = {}
  /\ cmu' = [cmu EXCEPT !.w = NoProc]
  /\ reaper' = InitReaper
  /\ UNCHANGED <<appVars, now, tickPending, items, subscribers, rmu, store, heap,
                 nextId, spans, tmu, pc, loc, open, nops, hist>>

Reaper == ReaperWake \/ ReaperLock \/ ReaperStep \/ ReaperUnlock

\* the clock advances by a minute; the ticker fires on its period
Tick(limit) ==
  /\ now < limit
  /\ now' = now + 1
  /\ tickPending' = (tickPending \/ (now + 1) % TickerPeriod = 0)
  /\ UNCHANGED <<appVars, items, cmu, reaper, subscribers, rmu, store, heap,
                 nextId, spans, tmu, pc, loc, open, nops, hist>>

\* the steps of a goroutine inside the cache and the exporter
CacheStep(p) ==
  \/ CacheGet(p) \/ CacheGetRead(p) \/ CacheGetRUnlock(p)
  \/ CacheSet(p) \/ CacheSetWrite(p) \/ CacheSetUnlock(p)
  \/ CacheDelete(p) \/ CacheDeleteWrite(p) \/ CacheDeleteUnlock(p)
  \/ CacheClear(p) \/ CacheClearWrite(p) \/ CacheClearUnlock(p)

ExportStep(p) == ExpLock(p) \/ ExpAppend(p)

\* ------------------------------------------- application instances and tracing
Insts == 1..MaxInsts
NoInst == 0         \* otel's default provider, which records nothing

\* the components app.Build constructs, in the order it constructs them; each
\* constructor takes its tracer with otel.Tracer(name)
BuildOrder == <<"repo", "cache", "service", "handler">>
Components == {BuildOrder[k] : k \in 1..Len(BuildOrder)}

\* the step of SpawnTestApp after the construction of component c
AfterBuild(c) ==
  LET k == CHOOSE j \in 1..Len(BuildOrder) : BuildOrder[j] = c
  IN  IF k < Len(BuildOrder) THEN BuildOrder[k + 1] ELSE "ready"

\* otel.Tracer(name): a tracer of the provider that is global at the moment of the call
GlobalTracer == provider

\* SpawnTestApp: NewTestSpanRecorder, trace.NewTracerProvider(trace.WithSyncer(recorder))
NewProvider(i) ==
  /\ setup[i].pc = "new"
  /\ setup' = [setup EXCEPT ![i].pc = "set"]
  /\ UNCHANGED <<now, tickPending, items, cmu, reaper, subscribers, rmu, store, heap,
                 nextId, spans, tmu, pc, loc, open, nops, hist,
                 provider, tracers, recorders>>

\* SpawnTestApp: otel.SetTracerProvider(tp)
SetTracerProvider(i) ==
  /\ setup[i].pc = "set"
  /\ provider' = i
  /\ setup' = [setup EXCEPT ![i].pc = BuildOrder[1]]
  /\ UNCHANGED <<now, tickPending, items, cmu, reaper, subscribers, rmu, store, heap,
                 nextId, spans, tmu, pc, loc, open, nops, hist,
                 tracers, recorders>>

\* app.Build: the constructor of one component; Config.TracerProvider is not passed on
BuildComponent(i) ==
  /\ setup[i].pc \in Components
  /\ tracers' = [tracers EXCEPT ![i][setup[i].pc] = GlobalTracer]
  /\ setup' = [setup EXCEPT ![i].pc = AfterBuild(setup[i].pc)]
  /\ UNCHANGED <<now, tickPending, items, cmu, reaper, subscribers, rmu, store, heap,
                 nextId, spans, tmu, pc, loc, open, nops, hist,
                 provider, recorders>>

\* the span a component of instance i starts and ends during a request
InstSpan(i, c) == [name |-> c, app |-> i]

\* the recorders after the span of component c of instance i has ended: the span goes
\* to the recorder of the provider the component's tracer is from
Emit(recs, i, c) ==
  LET t == tracers[i][c]
  IN  IF t = NoInst THEN recs ELSE [recs EXCEPT ![t] = Appended(@, <<InstSpan(i, c)>>)]

\* a create request to instance i: the repository's, the cache's, the service's and
\* the handler's spans end in this order
InstRequest(i) ==
  /\ setup[i].pc = "ready"
  /\ setup[i].reqs < MaxInstReqs
  /\ setup' = [setup EXCEPT ![i].reqs = @ + 1]
  /\ recorders' = Emit(Emit(Emit(Emit(recorders, i, "repo"), i, "cache"), i, "service"),
                       i, "handler")
  /\ UNCHANGED <<now, tickPending, items, cmu, reaper, subscribers, rmu, store, heap,
                 nextId, spans, tmu, pc, loc, open, nops, hist,
                 provider, tracers>>

\* test instances that are set up and used concurrently
InstNext ==
  \E i \in Insts : NewProvider(i) \/ SetTracerProvider(i) \/ BuildComponent(i) \/ InstRequest(i)

\* ------------------------------------------------------------------ Init
Init ==
  /\ now = 0
  /\ tickPending = FALSE
  /\ items = EmptyItems
  /\ cmu = [w |-> NoProc, r |-> {}]
  /\ reaper = InitReaper
  /\ subscribers = [id \in Ids |-> Nil]
  /\ rmu = [w |-> NoProc, r |-> {}]
  /\ store = [k \in IdStrings |-> NoData]
  /\ heap = [id \in Ids |-> NoObject]
  /\ nextId = 1
  /\ spans = <<>>
  /\ tmu = NoProc
  /\ pc = [p \in Procs |-> <<>>]
  /\ loc = [p \in Procs |-> InitLoc]
  /\ open = [p \in Procs |-> <<>>]
  /\ nops = 0
  /\ hist = InitHist
  /\ provider = NoInst
  /\ tracers = [i \in Insts |-> [c \in Components |-> NoInst]]
  /\ recorders = [i \in Insts |-> <<>>]
  /\ setup = [i \in Insts |-> [pc |-> "new", reqs |-> 0]]

\* --------------------------------------------- the cache called directly
\* a client calls Get, Set, Delete or Clear of the cache
CallCache(p) ==
  /\ Idle(p)
  /\ FirstIdle(p)
  /\ nops < MaxOps
  /\ nops' = nops + 1
  /\ hist' = [hist EXCEPT !.sent[p] = <<>>]
  /\ \/ \E k \in CacheKeys :
          /\ loc' = [loc EXCEPT ![p] = [InitLoc EXCEPT !.op = "cache.Get", !.key = k]]
          /\ pc' = [pc EXCEPT ![p] = <<"get">>]
     \/ \E v \in Ids, d \in 0..MaxTTL :
          /\ loc' = [loc EXCEPT ![p] = [InitLoc EXCEPT !.op = "cache.Set",
                                                       !.key = GenerateCacheKey(v),
                                                       !.sub = v, !.ttl = d]]
          /\ pc' = [pc EXCEPT ![p] = <<"set">>]
     \/ \E k \in CacheKeys :
          /\ loc' = [loc EXCEPT ![p] = [InitLoc EXCEPT !.op = "cache.Delete", !.key = k]]
          /\ pc' = [pc EXCEPT ![p] = <<"del">>]
     \/ /\ loc' = [loc EXCEPT ![p] = [InitLoc EXCEPT !.op = "cache.Clear"]]
        /\ pc' = [pc EXCEPT ![p] = <<"clr">>]
  /\ UNCHANGED <<appVars, now, tickPending, items, cmu, reaper, subscribers, rmu, store, heap,
                 nextId, spans, tmu, open>>

CacheTick == Tick(MaxCacheTime)

\* ------------------------------------- the cache called with any key and value
\* a client calls Get(key) or Set(key, subscriber, ttl) of the cache; the key need not
\* be the one GenerateCacheKey gives for the subscriber
CallKeyed(p) ==
  /\ Idle(p)
  /\ FirstIdle(p)
  /\ nops < MaxSetOps
  /\ nops' = nops + 1
  /\ hist' = [hist EXCEPT !.sent[p] = <<>>]
  /\ \/ \E k \in CacheKeys :
          /\ loc' = [loc EXCEPT ![p] = [InitLoc EXCEPT !.op = "cache.Get", !.key = k]]
          /\ pc' = [pc EXCEPT ![p] = <<"get">>]
     \/ \E k \in CacheKeys, v \in Ids, d \in 0..MaxTTL :
          /\ loc' = [loc EXCEPT ![p] = [InitLoc EXCEPT !.op = "cache.Set", !.key = k,
                                                       !.sub = v, !.ttl = d]]
          /\ pc' = [pc EXCEPT ![p] = <<"set">>]
  /\ UNCHANGED <<appVars, now, tickPending, items, cmu, reaper, subscribers, rmu, store, heap,
                 nextId, spans, tmu, open>>

KeyedTick == Tick(MaxSetTime)

KeyedStep(p) ==
  \/ CacheGet(p) \/ CacheGetRead(p) \/ CacheGetRUnlock(p)
  \/ CacheSet(p) \/ CacheSetWrite(p) \/ CacheSetUnlock(p)

KeyedNext ==
  \/ \E p \in Procs : CallKeyed(p) \/ KeyedStep(p) \/ ExportStep(p)
  \/ Reaper
  \/ KeyedTick

KeyedSpec == Init /\ [][KeyedNext]_vars

\* ------------------------------------------------ Clear over a filled cache
\* a client fills the cache with Sets, one at a time, and calls Get and Clear at any
\* time
CallClearing(p) ==
  /\ Idle(p)
  /\ FirstIdle(p)
  /\ nops < MaxClearOps
  /\ nops' = nops + 1
  /\ hist' = [hist EXCEPT !.sent[p] = <<>>]
  /\ \/ \E k \in CacheKeys :
          /\ loc' = [loc EXCEPT ![p] = [InitLoc EXCEPT !.op = "cache.Get", !.key = k]]
          /\ pc' = [pc EXCEPT ![p] = <<"get">>]
     \/ \E v \in Ids, d \in 0..MaxTTL :
          /\ \A q \in Procs : Idle(q)
          /\ loc' = [loc EXCEPT ![p] = [InitLoc EXCEPT !.op = "cache.Set",
                                                       !.key = GenerateCacheKey(v),
                                                       !.sub = v, !.ttl = d]]
          /\ pc' = [pc EXCEPT ![p] = <<"set">>]
     \/ /\ loc' = [loc EXCEPT ![p] = [InitLoc EXCEPT !.op = "cache.Clear"]]
        /\ pc' = [pc EXCEPT ![p] = <<"clr">>]
  /\ UNCHANGED <<appVars, now, tickPending, items, cmu, reaper, subscribers, rmu, store, heap,
                 nextId, spans, tmu, open>>

ClearingTick == Tick(MaxClearTime)

ClearingStep(p) ==
  \/ CacheGet(p) \/ CacheGetRead(p) \/ CacheGetRUnlock(p)
  \/ CacheSet(p) \/ CacheSetWrite(p) \/ CacheSetUnlock(p)
  \/ CacheClear(p) \/ CacheClearWrite(p) \/ CacheClearUnlock(p)

ClearingNext ==
  \/ \E p \in Procs : CallClearing(p) \/ ClearingStep(p) \/ ExportStep(p)
  \/ Reaper
  \/ ClearingTick

ClearingSpec == Init /\ [][ClearingNext]_vars

\* ------------------------------------------------- the cache and the teardown
\* TestApp.Close (server.Close, tp.Shutdown) and Application.Shutdown
\* (server.Shutdown), once the requests are over: neither reaches the cache, its
\* ticker or its cleanup goroutine
Close ==
  /\ \A p \in Procs : Idle(p)
  /\ hist.closedAt < 0
  /\ hist' = [hist EXCEPT !.closedAt = now]
  /\ UNCHANGED <<appVars, now, tickPending, items, cmu, reaper, subscribers, rmu, store, heap,
                 nextId, spans, tmu, pc, loc, open, nops>>

\* the cache is called until the application is torn down
CallCacheOpen(p) == hist.closedAt < 0 /\ CallCache(p)

TeardownNext ==
  \/ \E p \in Procs : CallCacheOpen(p) \/ CacheStep(p) \/ ExportStep(p)
  \/ Reaper
  \/ CacheTick
  \/ Close

TeardownSpec == Init /\ [][TeardownNext]_vars

\* ----------------------------------------- the repositories called directly
\* models.NewSubscriber(email, name), when the object does not exist yet
NewSubscriber(id, email, name) ==
  [heap EXCEPT ![id] = IF @ = NoObject THEN [email |-> email, name |-> name] ELSE @]

\* a client calls a method of the in-memory or of the Dapr repository
CallRepo(p) ==
  /\ Idle(p)
  /\ FirstIdle(p)
  /\ nops < MaxOps
  /\ nops' = nops + 1
  /\ hist' = [hist EXCEPT !.sent[p] = <<>>]
  /\ \E kind \in {"r", "d"} :
       \/ \E id \in Ids, e \in Emails :
            /\ heap' = NewSubscriber(id, e, "n")
            /\ loc' = [loc EXCEPT ![p] = [InitLoc EXCEPT !.op = kind \o ".Create", !.rsub = id]]
            /\ pc' = [pc EXCEPT ![p] = <<kind \o "c">>]
       \/ \E s \in IdStrings :
            /\ loc' = [loc EXCEPT ![p] = [InitLoc EXCEPT !.op = kind \o ".GetByID", !.rid = s]]
            /\ pc' = [pc EXCEPT ![p] = <<kind \o "g">>]
            /\ UNCHANGED heap
       \/ /\ loc' = [loc EXCEPT ![p] = [InitLoc EXCEPT !.op = kind \o ".GetAll"]]
          /\ pc' = [pc EXCEPT ![p] = <<kind \o "a">>]
          /\ UNCHANGED heap
       \/ \E id \in Ids, e \in Emails :
            /\ heap' = NewSubscriber(id, e, "n")
            /\ loc' = [loc EXCEPT ![p] = [InitLoc EXCEPT !.op = kind \o ".Update", !.rsub = id]]
            /\ pc' = [pc EXCEPT ![p] = <<kind \o "u">>]
       \/ \E s \in IdStrings :
            /\ loc' = [loc EXCEPT ![p] = [InitLoc EXCEPT !.op = kind \o ".Delete", !.rid = s]]
            /\ pc' = [pc EXCEPT ![p] = <<kind \o "d">>]
            /\ UNCHANGED heap
  /\ UNCHANGED <<appVars, timeVars, cacheVars, subscribers, rmu, store, nextId, recVars, open>>

RepoNext ==
  \E p \in Procs : CallRepo(p) \/ RepoStep(p) \/ DaprStep(p) \/ ExportStep(p)

RepoSpec == Init /\ [][RepoNext]_vars

CacheNext ==
  \/ \E p \in Procs : CallCache(p) \/ CacheStep(p) \/ ExportStep(p)
  \/ Reaper
  \/ CacheTick
  \/ RecorderClear

CacheSpec == Init /\ [][CacheNext]_vars

InstSpec == Init /\ [][InstNext]_vars

\* the Go scheduler runs every runnable goroutine, and sync.Mutex and sync.RWMutex
\* hand a lock that keeps being released to every waiter
\* the cache and its reaper, without the recorder's Clear
CacheLockNext ==
  \/ \E p \in Procs : CallCache(p) \/ CacheStep(p) \/ ExportStep(p)
  \/ Reaper
  \/ CacheTick

CacheFairSpec ==
  /\ Init /\ [][CacheLockNext]_vars
  /\ \A p \in Procs : SF_vars(CacheStep(p) \/ ExportStep(p))
  /\ SF_vars(ReaperLock \/ ReaperStep \/ ReaperUnlock)

\* ------------------------------------------------ the application under test
\* a client calls CreateSubscriber or GetSubscriber of the service built by
\* app.Build (in-memory repository, in-memory cache), or Clear of its cache
CallService(p) ==
  /\ Idle(p)
  /\ FirstIdle(p)
  /\ nops < MaxReqs
  /\ nops' = nops + 1
  /\ \/ \E e \in Emails :
          /\ nextId + Cardinality({q \in Procs : At(q, "sc")}) <= MaxSubs
          /\ loc' = [loc EXCEPT ![p] = [InitLoc EXCEPT !.op = "svc.Create", !.email = e]]
          /\ pc' = [pc EXCEPT ![p] = <<"sc">>]
          /\ hist' = [hist EXCEPT !.sent[p] = <<>>]
     \/ \E id \in Ids :
          /\ loc' = [loc EXCEPT ![p] = [InitLoc EXCEPT !.op = "svc.Get", !.id = id,
                                                       !.nth = hist.reads[id] + 1,
                                                       !.afterCreate = hist.createDone[id],
                                                       !.afterClear = id \in hist.awaitRead]]
          /\ pc' = [pc EXCEPT ![p] = <<"sg">>]
          /\ hist' = [hist EXCEPT !.sent[p] = <<>>, !.awaitRead = @ \ {id}]
     \/ /\ loc' = [loc EXCEPT ![p] = [InitLoc EXCEPT !.op = "cache.Clear"]]
        /\ pc' = [pc EXCEPT ![p] = <<"clr">>]
        /\ hist' = [hist EXCEPT !.sent[p] = <<>>, !.clearCalled = TRUE]
  /\ UNCHANGED <<appVars, timeVars, cacheVars, repoVars, recVars, open>>

ServiceCacheStep(p) ==
  \/ CacheGet(p) \/ CacheGetRead(p) \/ CacheGetRUnlock(p)
  \/ CacheSet(p) \/ CacheSetWrite(p) \/ CacheSetUnlock(p)
  \/ CacheClear(p) \/ CacheClearWrite(p) \/ CacheClearUnlock(p)

ServiceRepoStep(p) ==
  \/ RepoCreate(p) \/ RepoCreateWrite(p) \/ RepoUnlock(p)
  \/ RepoGetByID(p) \/ RepoGetByIDRead(p) \/ RepoRUnlock(p)

\* concurrent requests, all within the first period of the reaper's ticker
Next ==
  \/ \E p \in Procs : \/ CallService(p) \/ ServiceStep(p)
                      \/ ServiceCacheStep(p) \/ ServiceRepoStep(p) \/ ExportStep(p)
  \/ RecorderClear

Spec == Init /\ [][Next]_vars

\* one request at a time, as the integration tests send them, over MaxTime minutes
CallServiceAlone(p) == (\A q \in Procs : Idle(q)) /\ CallService(p)

ServiceTick == Tick(MaxTime)

SeqNext ==
  \/ \E p \in Procs : \/ CallServiceAlone(p) \/ ServiceStep(p)
                      \/ ServiceCacheStep(p) \/ ServiceRepoStep(p) \/ ExportStep(p)
  \/ Reaper
  \/ ServiceTick

SeqSpec == Init /\ [][SeqNext]_vars

\* the email an update request carries
NewEmails == {"b@x.com"}

\* a request starts: the requests in flight are no longer alone, and when it is a
\* read of id, a read of id in flight is no longer the only read of id since the
\* last update
Overlapped(op, id) ==
  [q \in Procs |-> IF Idle(q) THEN loc[q]
                   ELSE IF op = "svc.Get" /\ loc[q].op = "svc.Get" /\ loc[q].id = id
                   THEN [loc[q] EXCEPT !.alone = FALSE, !.afterUpdate = FALSE,
                                       !.afterQuiet = FALSE]
                   ELSE [loc[q] EXCEPT !.alone = FALSE]]

\* the locals of a request that starts on goroutine p
NewCall(p, op, id, email) ==
  [InitLoc EXCEPT !.op = op, !.id = id, !.email = email,
                  !.alone = \A q \in Procs \ {p} : Idle(q)]

\* a client calls CreateSubscriber, GetSubscriber or UpdateSubscriber of the service
\* built by app.Build (in-memory repository, in-memory cache)
CallCrud(p) ==
  /\ Idle(p)
  /\ FirstIdle(p)
  /\ nops < MaxCrudReqs
  /\ nops' = nops + 1
  /\ \/ \E e \in Emails :
          /\ nextId + Cardinality({q \in Procs : At(q, "sc")}) <= MaxCrudSubs
          /\ loc' = [Overlapped("svc.Create", Nil) EXCEPT ![p] = NewCall(p, "svc.Create", Nil, e)]
          /\ pc' = [pc EXCEPT ![p] = <<"sc">>]
          /\ hist' = [hist EXCEPT !.sent[p] = <<>>]
     \/ \E id \in 1..MaxCrudSubs :
          /\ loc' = [Overlapped("svc.Get", id) EXCEPT ![p] =
                       [NewCall(p, "svc.Get", id, "") EXCEPT
                          !.afterUpdate = id \in hist.awaitUpd,
                          !.afterQuiet = id \in hist.quietUpd]]
          /\ pc' = [pc EXCEPT ![p] = <<"sg">>]
          /\ hist' = [hist EXCEPT !.sent[p] = <<>>, !.awaitUpd = @ \ {id},
                                  !.quietUpd = @ \ {id}]
     \/ \E id \in 1..MaxCrudSubs, e \in NewEmails :
          /\ loc' = [Overlapped("svc.Update", id) EXCEPT ![p] = NewCall(p, "svc.Update", id, e)]
          /\ pc' = [pc EXCEPT ![p] = <<"su">>]
          /\ hist' = [hist EXCEPT !.sent[p] = <<>>]
  /\ UNCHANGED <<appVars, timeVars, cacheVars, repoVars, recVars, open>>

CrudCacheStep(p) ==
  \/ CacheGet(p) \/ CacheGetRead(p) \/ CacheGetRUnlock(p)
  \/ CacheSet(p) \/ CacheSetWrite(p) \/ CacheSetUnlock(p)
  \/ CacheDelete(p) \/ CacheDeleteWrite(p) \/ CacheDeleteUnlock(p)

CrudRepoStep(p) ==
  \/ RepoCreate(p) \/ RepoCreateWrite(p)
  \/ RepoGetByID(p) \/ RepoGetByIDRead(p)
  \/ RepoUpdate(p) \/ RepoUpdateWrite(p)
  \/ RepoUnlock(p) \/ RepoRUnlock(p)

\* concurrent create, read and update requests, all within the first period
\* of the reaper's ticker
CrudNext ==
  \E p \in Procs : \/ CallCrud(p) \/ ServiceStep(p)
                    \/ ServiceUpdateStep(p)
                    \/ CrudCacheStep(p) \/ CrudRepoStep(p) \/ ExportStep(p)

CrudSpec == Init /\ [][CrudNext]_vars

\* --------------------------------------------- the service over a failing cache
CacheUnavailable == "cache unavailable"

\* Set of a Cache implementation that returns an error or else does what
\* InMemoryCache.Set does
FaultySet(p) ==
  /\ At(p, "fset")
  /\ \/ /\ loc' = [loc EXCEPT ![p].cerr = CacheUnavailable]
        /\ pc' = Return(p)
     \/ /\ pc' = Goto(p, "set")
        /\ UNCHANGED loc
  /\ UNCHANGED <<appVars, timeVars, cacheVars, repoVars, recVars, open, nops, hist>>

\* Delete of a Cache implementation that returns an error or else does what
\* InMemoryCache.Delete does
FaultyDelete(p) ==
  /\ At(p, "fdel")
  /\ \/ /\ loc' = [loc EXCEPT ![p].cerr = CacheUnavailable]
        /\ pc' = Return(p)
     \/ /\ pc' = Goto(p, "del")
        /\ UNCHANGED loc
  /\ UNCHANGED <<appVars, timeVars, cacheVars, repoVars, recVars, open, nops, hist>>

\* a client calls CreateSubscriber, GetSubscriber, UpdateSubscriber or DeleteSubscriber
\* of a service built with the in-memory repository and that cache, one request at a
\* time
CallFaulty(p) ==
  /\ \A q \in Procs : Idle(q)
  /\ FirstIdle(p)
  /\ nops < MaxFaultyReqs
  /\ nops' = nops + 1
  /\ hist' = [hist EXCEPT !.sent[p] = <<>>]
  /\ \/ \E e \in Emails :
          /\ nextId <= MaxSubs
          /\ loc' = [loc EXCEPT ![p] = [InitLoc EXCEPT !.op = "svc.Create", !.email = e,
                                                       !.cache = "f"]]
          /\ pc' = [pc EXCEPT ![p] = <<"sc">>]
     \/ \E id \in Ids :
          /\ loc' = [loc EXCEPT ![p] = [InitLoc EXCEPT !.op = "svc.Get", !.id = id,
                                                       !.cache = "f"]]
          /\ pc' = [pc EXCEPT ![p] = <<"sg">>]
     \/ \E id \in Ids, e \in NewEmails :
          /\ loc' = [loc EXCEPT ![p] = [InitLoc EXCEPT !.op = "svc.Update", !.id = id,
                                                       !.email = e, !.cache = "f"]]
          /\ pc' = [pc EXCEPT ![p] = <<"su">>]
     \/ \E id \in Ids :
          /\ loc' = [loc EXCEPT ![p] = [InitLoc EXCEPT !.op = "svc.Delete", !.id = id,
                                                       !.cache = "f"]]
          /\ pc' = [pc EXCEPT ![p] = <<"sd">>]
  /\ UNCHANGED <<appVars, timeVars, cacheVars, repoVars, recVars, open>>

FaultyRepoStep(p) ==
  \/ RepoCreate(p) \/ RepoCreateWrite(p)
  \/ RepoGetByID(p) \/ RepoGetByIDRead(p)
  \/ RepoUpdate(p) \/ RepoUpdateWrite(p)
  \/ RepoDelete(p) \/ RepoDeleteWrite(p)
  \/ RepoUnlock(p) \/ RepoRUnlock(p)

FaultyNext ==
  \E p \in Procs : \/ CallFaulty(p) \/ ServiceStep(p)
                    \/ ServiceUpdateStep(p) \/ ServiceDeleteStep(p)
                    \/ FaultySet(p) \/ FaultyDelete(p)
                    \/ CrudCacheStep(p) \/ FaultyRepoStep(p) \/ ExportStep(p)

FaultyCacheSpec == Init /\ [][FaultyNext]_vars

\* ---------------------------------------------- concurrent reads and deletes
\* a client calls CreateSubscriber, and Clear of the cache, while no request is in
\* flight, and GetSubscriber and DeleteSubscriber, with the id a finished
\* CreateSubscriber returned, at any time
CallDeleting(p) ==
  /\ Idle(p)
  /\ FirstIdle(p)
  /\ nops < MaxDeleteReqs
  /\ nops' = nops + 1
  /\ hist' = [hist EXCEPT !.sent[p] = <<>>]
  /\ \/ \E e \in Emails :
          /\ \A q \in Procs : Idle(q)
          /\ nextId <= MaxCrudSubs
          /\ loc' = [loc EXCEPT ![p] = [InitLoc EXCEPT !.op = "svc.Create", !.email = e]]
          /\ pc' = [pc EXCEPT ![p] = <<"sc">>]
     \/ \E id \in {i \in Ids : hist.createDone[i]} :
          /\ loc' = [loc EXCEPT ![p] = [InitLoc EXCEPT !.op = "svc.Get", !.id = id,
                                                       !.afterDelete = id \in hist.deleted]]
          /\ pc' = [pc EXCEPT ![p] = <<"sg">>]
     \/ \E id \in {i \in Ids : hist.createDone[i]} :
          /\ loc' = [loc EXCEPT ![p] = [InitLoc EXCEPT !.op = "svc.Delete", !.id = id]]
          /\ pc' = [pc EXCEPT ![p] = <<"sd">>]
     \/ /\ \A q \in Procs : Idle(q)
        /\ loc' = [loc EXCEPT ![p] = [InitLoc EXCEPT !.op = "cache.Clear"]]
        /\ pc' = [pc EXCEPT ![p] = <<"clr">>]
  /\ UNCHANGED <<appVars, timeVars, cacheVars, repoVars, recVars, open>>

DeletingRepoStep(p) ==
  \/ RepoCreate(p) \/ RepoCreateWrite(p)
  \/ RepoGetByID(p) \/ RepoGetByIDRead(p)
  \/ RepoDelete(p) \/ RepoDeleteWrite(p)
  \/ RepoUnlock(p) \/ RepoRUnlock(p)

DeletingNext ==
  \E p \in Procs : \/ CallDeleting(p) \/ ServiceStep(p) \/ ServiceDeleteStep(p)
                    \/ CacheStep(p) \/ DeletingRepoStep(p) \/ ExportStep(p)

DeletingSpec == Init /\ [][DeletingNext]_vars

\* ------------------------------------------------ reads during an update
\* a client calls CreateSubscriber while no request is in flight, and with the id a
\* finished CreateSubscriber returned GetSubscriber at any time and UpdateSubscriber
\* until one has succeeded
CallDuringUpdate(p) ==
  /\ Idle(p)
  /\ FirstIdle(p)
  /\ nops < MaxDirtyReqs
  /\ nops' = nops + 1
  /\ hist' = [hist EXCEPT !.sent[p] = <<>>]
  /\ \/ \E e \in Emails :
          /\ \A q \in Procs : Idle(q)
          /\ nextId <= MaxCrudSubs
          /\ loc' = [loc EXCEPT ![p] = [InitLoc EXCEPT !.op = "svc.Create", !.email = e]]
          /\ pc' = [pc EXCEPT ![p] = <<"sc">>]
     \/ \E id \in {i \in Ids : hist.createDone[i]} :
          /\ loc' = [loc EXCEPT ![p] = [InitLoc EXCEPT !.op = "svc.Get", !.id = id]]
          /\ pc' = [pc EXCEPT ![p] = <<"sg">>]
     \/ \E id \in {i \in Ids : hist.createDone[i]}, e \in NewEmails :
          /\ hist.awaitUpd = {}
          /\ \A q \in Procs : loc[q].op # "svc.Update"
          /\ loc' = [loc EXCEPT ![p] = [InitLoc EXCEPT !.op = "svc.Update", !.id = id,
                                                       !.email = e]]
          /\ pc' = [pc EXCEPT ![p] = <<"su">>]
  /\ UNCHANGED <<appVars, timeVars, cacheVars, repoVars, recVars, open>>

DuringUpdateNext ==
  \E p \in Procs : \/ CallDuringUpdate(p) \/ ServiceStep(p) \/ ServiceUpdateStep(p)
                    \/ CrudCacheStep(p) \/ CrudRepoStep(p) \/ ExportStep(p)

DuringUpdateSpec == Init /\ [][DuringUpdateNext]_vars

\* ------------------------------------------- requests whose context is cancelled
\* a client calls CreateSubscriber, GetSubscriber or UpdateSubscriber with a context
\* it can cancel, one request at a time
CallCancellable(p) ==
  /\ \A q \in Procs : Idle(q)
  /\ FirstIdle(p)
  /\ nops < MaxCancelReqs
  /\ nops' = nops + 1
  /\ hist' = [hist EXCEPT !.sent[p] = <<>>]
  /\ \/ \E e \in Emails :
          /\ nextId <= MaxSubs
          /\ loc' = [loc EXCEPT ![p] = [InitLoc EXCEPT !.op = "svc.Create", !.email = e]]
          /\ pc' = [pc EXCEPT ![p] = <<"sc">>]
     \/ \E id \in Ids :
          /\ loc' = [loc EXCEPT ![p] = [InitLoc EXCEPT !.op = "svc.Get", !.id = id]]
          /\ pc' = [pc EXCEPT ![p] = <<"sg">>]
     \/ \E id \in Ids, e \in NewEmails :
          /\ loc' = [loc EXCEPT ![p] = [InitLoc EXCEPT !.op = "svc.Update", !.id = id,
                                                       !.email = e]]
          /\ pc' = [pc EXCEPT ![p] = <<"su">>]
  /\ UNCHANGED <<appVars, timeVars, cacheVars, repoVars, recVars, open>>

\* the client cancels the context of the request p serves, while one of the request's
\* operations runs between its tracer.Start and its span.End.  No operation of the
\* cache, the in-memory repository or the service reads ctx.Done() or ctx.Err(), so
\* no step depends on it.
Cancel(p) ==
  /\ open[p] # <<>>
  /\ ~At(p, "exp_lock") /\ ~At(p, "exp_append")
  /\ ~loc[p].cancelled
  /\ loc' = [loc EXCEPT ![p].cancelled = TRUE]
  /\ UNCHANGED <<appVars, timeVars, cacheVars, repoVars, recVars, pc, open, nops, hist>>

CancelNext ==
  \E p \in Procs : \/ CallCancellable(p) \/ Cancel(p)
                    \/ ServiceStep(p) \/ ServiceUpdateStep(p)
                    \/ CrudCacheStep(p) \/ CrudRepoStep(p) \/ ExportStep(p)

CancelSpec == Init /\ [][CancelNext]_vars

\* ------------------------------------- the application over the Dapr repository
\* a client calls a method of the service built by app.Build with Config.Repository
\* set to a DaprSubscriberRepository, one request at a time.  Every GetByID of that
\* repository unmarshals a new object; heap[id] holds the contents of the object of
\* subscriber id the service works on.
CallDapr(p) ==
  /\ \A q \in Procs : Idle(q)
  /\ FirstIdle(p)
  /\ nops < MaxDaprReqs
  /\ nops' = nops + 1
  /\ hist' = [hist EXCEPT !.sent[p] = <<>>]
  /\ \/ \E e \in Emails :
          /\ nextId <= MaxSubs
          /\ loc' = [loc EXCEPT ![p] = [InitLoc EXCEPT !.op = "svc.Create", !.email = e,
                                                       !.repo = "d", !.snap = items]]
          /\ pc' = [pc EXCEPT ![p] = <<"sc">>]
     \/ \E id \in Ids :
          /\ loc' = [loc EXCEPT ![p] = [InitLoc EXCEPT !.op = "svc.Get", !.id = id,
                                                       !.repo = "d", !.snap = items]]
          /\ pc' = [pc EXCEPT ![p] = <<"sg">>]
     \/ /\ loc' = [loc EXCEPT ![p] = [InitLoc EXCEPT !.op = "svc.GetAll",
                                                     !.repo = "d", !.snap = items]]
        /\ pc' = [pc EXCEPT ![p] = <<"sa">>]
     \/ \E id \in Ids, e \in NewEmails :
          /\ loc' = [loc EXCEPT ![p] = [InitLoc EXCEPT !.op = "svc.Update", !.id = id,
                                                       !.email = e,
                                                       !.repo = "d", !.snap = items]]
          /\ pc' = [pc EXCEPT ![p] = <<"su">>]
     \/ \E id \in Ids :
          /\ loc' = [loc EXCEPT ![p] = [InitLoc EXCEPT !.op = "svc.Delete", !.id = id,
                                                       !.repo = "d", !.snap = items]]
          /\ pc' = [pc EXCEPT ![p] = <<"sd">>]
  /\ UNCHANGED <<appVars, timeVars, cacheVars, repoVars, recVars, open>>

DaprAppNext ==
  \E p \in Procs : \/ CallDapr(p) \/ ServiceStep(p) \/ ServiceGetAllStep(p)
                    \/ ServiceUpdateStep(p) \/ ServiceDeleteStep(p)
                    \/ CrudCacheStep(p) \/ DaprStep(p) \/ ExportStep(p)

DaprAppSpec == Init /\ [][DaprAppNext]_vars

\* ============================================================ properties
Operations == {"cache.read", "cache.write", "database.read", "database.write",
               "database.delete"}
SpanNames == {"cache.get", "cache.set", "cache.delete", "cache.clear"}

\* the span carries the attribute k = v
Carries(s, k, v) == \E i \in 1..Len(s.attrs) : s.attrs[i] = <<k, v>>

\* the number of operation attributes a span carries
OperationCount(s) == Cardinality({i \in 1..Len(s.attrs) : s.attrs[i][1] = "operation"})

\* the spans a goroutine holds: started and not ended, or on their way to the recorder
Held(p) == open[p] \o loc[p].batch

\* every span of the state, recorded or held
AllSpans == {spans[i] : i \in 1..Len(spans)}
            \cup UNION {{Held(p)[i] : i \in 1..Len(Held(p))} : p \in Procs}

\* a Get that has read the map and still holds the read lock
GetDone(p) == At(p, "get_runlock")
Found(p) == loc[p].cres # Nil

C5_CacheOperationTag ==
  \A s \in AllSpans :
    s.name \in SpanNames =>
      /\ OperationCount(s) = 1
      /\ Carries(s, "operation", IF s.name = "cache.get" THEN "cache.read" ELSE "cache.write")

\* the recorder holds the span of a Get that took the expired path
C5_Witness ==
  \E i \in 1..Len(spans) :
    spans[i].name = "cache.get" /\ spans[i].attrs[Len(spans[i].attrs)][2] = "expired"

\* ---------------------------------------------------------------------- C7
\* C7: Count() equals the number of spans passed to ExportSpans since the last Clear
\* (0 right after Clear), whatever the interleaving of concurrent ExportSpans calls.
C7_CountExact ==
  /\ Count = Len(hist.sinceClear)
  /\ hist.cleared => Count = 0

\* two ExportSpans calls overlap: one holds the recorder's lock, the other waits for it
C7_Witness ==
  \E p, q \in Procs : p # q /\ At(p, "exp_append") /\ At(q, "exp_lock") /\ tmu = p

\* ---------------------------------------------------------------------- C8
\* C8: after Clear every query is empty until a span is exported, and every span
\* exported after the Clear is returned by GetSpans and by the matching queries.
C8_ClearThenQueries ==
  /\ hist.cleared =>
       /\ GetSpans = <<>>
       /\ \A n \in SpanNames : GetSpansByName(n) = <<>>
       /\ \A op \in Operations : GetSpansByOperation(op) = <<>>
  /\ \A i \in 1..Len(hist.sinceClear) :
       LET s == hist.sinceClear[i] IN
       /\ \E j \in 1..Len(GetSpans) : GetSpans[j] = s
       /\ \E j \in 1..Len(GetSpansByName(s.name)) : GetSpansByName(s.name)[j] = s
       /\ \A op \in Operations :
            Carries(s, "operation", op) =>
              \E j \in 1..Len(GetSpansByOperation(op)) : GetSpansByOperation(op)[j] = s

\* both calls are over and one span is recorded: the other was cleared before it came
C8_Witness ==
  /\ nops = 2
  /\ \A p \in Procs : Idle(p)
  /\ Count = 1
  /\ ~hist.cleared

\* ---------------------------------------------------------------------- C9
\* the goroutines inside a critical section of the cache map
InCritical(p) ==
  \/ At(p, "get_read") \/ At(p, "get_runlock")
  \/ At(p, "set_write") \/ At(p, "set_unlock")
  \/ At(p, "del_write") \/ At(p, "del_unlock")
  \/ At(p, "clr_write") \/ At(p, "clr_unlock")

\* C9: a sweep is atomic for Get and Set: none of them is inside its critical section
\* while a sweep runs, and no Get finds an entry a sweep removed.
C9_SweepAtomic ==
  /\ reaper.pc = "sweep" => \A p \in Procs : ~InCritical(p)
  /\ \A p \in Procs : (GetDone(p) /\ Found(p)) => loc[p].key \notin hist.removed

\* a sweep has removed an entry and holds the lock while a Get of that key waits
C9_Witness ==
  /\ reaper.pc = "sweep"
  /\ \E p \in Procs : At(p, "get") /\ loc[p].key \in hist.removed

\* --------------------------------------------------------------------- C10
\* C10: no interleaving of Get, Set, Delete, Clear and sweeps deadlocks: every started
\* cache operation returns and every started sweep releases the lock.
C10_NoDeadlock ==
  /\ \A p \in Procs : (~Idle(p)) ~> Idle(p)
  /\ (reaper.pc # "idle") ~> (reaper.pc = "idle")

\* a sweep holds the lock while a Get and a Set both wait for it
C10_Witness ==
  /\ reaper.pc = "sweep"
  /\ \E p, q \in Procs : p # q /\ At(p, "get") /\ At(q, "set")

\* ---------------------------------------------------------------------- C6
RepoSpanNames == {"subscriber.repository.create", "subscriber.repository.get_by_id",
                  "subscriber.repository.get_all", "subscriber.repository.update",
                  "subscriber.repository.delete"}

\* C6: every span an Origin Store implementation opens carries an operation attribute
\* that is database.read or database.write, and no other operation tag.
C6_RepoOperationTag ==
  \A s \in AllSpans :
    s.name \in RepoSpanNames =>
      /\ OperationCount(s) = 1
      /\ Carries(s, "operation", "database.read") \/ Carries(s, "operation", "database.write")

\* ------------------------------------------------------------ C1, C2, C3
\* the outermost call of goroutine p has ended its last span and is returning
Returning(p, op) == pc[p] = <<"exp_lock">> /\ loc[p].op = op

\* the spans the current call of p ended that carry operation = op
SentWith(p, op) == {i \in 1..Len(hist.sent[p]) : Carries(hist.sent[p][i], "operation", op)}

\* the current call of p ended a cache.read span whose cache.hit is true
SentCacheHit(p) ==
  \E i \in SentWith(p, "cache.read") : Carries(hist.sent[p][i], "cache.hit", "true")

\* p returns from the second GetSubscriber of a subscriber whose CreateSubscriber
\* returned before the first one started
SecondRead(p) == Returning(p, "svc.Get") /\ loc[p].afterCreate /\ loc[p].nth = 2

\* p returns from the first GetSubscriber of a subscriber whose CreateSubscriber
\* returned before, and the cache's Clear was not called before the lookup
FirstRead(p) ==
  Returning(p, "svc.Get") /\ loc[p].afterCreate /\ loc[p].nth = 1 /\ ~loc[p].clr

\* C1 as stated: the second read of a created subscriber records no database.read
\* span and at least one cache.read span with cache.hit true, whenever it happens.
C1_SecondReadHitsAsStated ==
  \A p \in Procs :
    (SecondRead(p) /\ ~hist.clearCalled) =>
      SentWith(p, "database.read") = {} /\ SentCacheHit(p)

\* C1: the second read of a created subscriber records no database.read span and at
\* least one cache.read span with cache.hit true, provided its cache lookup happens
\* no more than the 5 minutes of the entry's TTL after the subscriber was last cached
\* (by the Create or by the first read) and the cache was not cleared since.
C1_SecondReadHits ==
  \A p \in Procs :
    (SecondRead(p) /\ loc[p].setAt >= 0 /\ loc[p].readAt - loc[p].setAt <= ServiceTTL) =>
      SentWith(p, "database.read") = {} /\ SentCacheHit(p)

C1_Witness ==
  \E p \in Procs :
    /\ SecondRead(p)
    /\ loc[p].readAt - loc[p].setAt = ServiceTTL
    /\ SentCacheHit(p)

CreateSucceeded(p) == Returning(p, "svc.Create") /\ loc[p].err = ""

\* C11: every successful CreateSubscriber records at least one span with operation
\* database.write whose subscriber.id is the created subscriber's id, and at least
\* one span with operation cache.write.
C11_CreateSpans ==
  \A p \in Procs :
    CreateSucceeded(p) =>
      /\ \E i \in SentWith(p, "database.write") :
            Carries(hist.sent[p][i], "subscriber.id", IdStr(loc[p].res))
      /\ SentWith(p, "cache.write") # {}

\* the second CreateSubscriber of a run returns its subscriber
C11_Witness ==
  \E p \in Procs : CreateSucceeded(p) /\ loc[p].res = MaxSubs /\ Len(hist.sent[p]) = 3

\* --------------------------------------------------------------------- C12
\* the current call of p ended a cache.read span that reports the subscriber v found
SentCacheFound(p, v) ==
  \E i \in SentWith(p, "cache.read") :
    /\ Carries(hist.sent[p][i], "cache.result", "hit")
    /\ Carries(hist.sent[p][i], "subscriber.id", IdStr(v))

\* the current call of p ended a cache.read span that reports not-found
SentCacheNotFound(p) ==
  \E i \in SentWith(p, "cache.read") :
    \/ Carries(hist.sent[p][i], "cache.result", "miss")
    \/ Carries(hist.sent[p][i], "cache.result", "expired")

\* the current call of p ended a database.read span with an error recorded on it
SentOriginMiss(p) == \E i \in SentWith(p, "database.read") : hist.sent[p][i].err

\* C12: a GetSubscriber calls the Origin Store's GetByID if and only if its Cache.Get
\* reported not-found; on a hit it returns the cached subscriber, and when the Origin
\* Store misses too it returns not-found without calling Cache.Set.
C12_ReadThrough ==
  \A p \in Procs :
    Returning(p, "svc.Get") =>
      /\ SentWith(p, "database.read") # {} <=> SentCacheNotFound(p)
      /\ ~SentCacheNotFound(p) => (loc[p].err = "" /\ SentCacheFound(p, loc[p].res))
      /\ SentOriginMiss(p) =>
           (loc[p].err # "" /\ loc[p].res = Nil /\ SentWith(p, "cache.write") = {})

\* a GetSubscriber returns not-found after the cache and the Origin Store both missed
C12_Witness ==
  \E p \in Procs :
    /\ Returning(p, "svc.Get") /\ loc[p].err # ""
    /\ SentCacheNotFound(p) /\ SentWith(p, "database.read") # {}

\* --------------------------------------------------------------------- C13
\* p returns from the first GetSubscriber of a subscriber that started after an
\* UpdateSubscriber of that subscriber returned with success, and no other
\* GetSubscriber of the subscriber started since
ReadAfterUpdate(p) == Returning(p, "svc.Get") /\ loc[p].afterUpdate

\* the subscriber p returns is the one asked for, with the email of the update
ReturnsUpdated(p) == loc[p].res = loc[p].id /\ heap[loc[p].res].email \in NewEmails

KeyedOperations == {"svc.Create", "svc.Get", "svc.Update", "svc.Delete"}

\* p returns from a service operation whose last Origin Store call returned an error
OriginFailed(p) ==
  /\ pc[p] = <<"exp_lock">>
  /\ loc[p].op \in KeyedOperations
  /\ loc[p].rerr # ""

\* C14: a service Create, Get, Update or Delete whose Origin Store call fails returns
\* that error, calls neither Cache.Set nor Cache.Delete afterwards, and leaves the
\* cache map as it was when the operation started.
C14_OriginFailureAborts ==
  \A p \in Procs :
    OriginFailed(p) =>
      /\ loc[p].err = loc[p].rerr
      /\ loc[p].res = Nil
      /\ SentWith(p, "cache.write") = {}
      /\ items = loc[p].snap

\* an Update fails in the Origin Store while the subscriber is cached
C14_Witness ==
  \E p \in Procs :
    /\ OriginFailed(p) /\ loc[p].op = "svc.Update"
    /\ items[GenerateCacheKey(loc[p].id)] # NoItem

\* --------------------------------------------------------------------- C15
\* p returns from a service operation whose Cache.Set or Cache.Delete returned an error
CacheFailed(p) ==
  /\ pc[p] = <<"exp_lock">>
  /\ loc[p].op \in KeyedOperations
  /\ loc[p].cerr = CacheUnavailable

\* C15: when Cache.Set or Cache.Delete returns an error, Create, Get, Update and Delete
\* return their success result, never the cache's error, and the Origin Store holds
\* what the operation wrote.
C15_CacheFailureIgnored ==
  \A p \in Procs :
    CacheFailed(p) =>
      LET id == loc[p].id IN
      /\ loc[p].err = ""
      /\ loc[p].op = "svc.Delete" => subscribers[id] = Nil
      /\ loc[p].op # "svc.Delete" => (loc[p].res = id /\ subscribers[id] = id)
      /\ loc[p].op = "svc.Update" => heap[id].email = loc[p].email
      /\ Carries(hist.sent[p][Len(hist.sent[p])], "success", "true")

\* an Update returns with success although its Cache.Delete failed and left the entry
C15_Witness ==
  \E p \in Procs :
    /\ CacheFailed(p) /\ loc[p].op = "svc.Update" /\ loc[p].err = ""
    /\ items[GenerateCacheKey(loc[p].id)] # NoItem

\* --------------------------------------------------------------------- C16
\* the last n spans of the recorder
LastRecorded(n) == SubSeq(spans, Len(spans) - n + 1, Len(spans))

\* p returns from a GetSubscriber that missed the cache
MissedRead(p) == Returning(p, "svc.Get") /\ SentCacheNotFound(p)

\* C16: in a read-by-key that misses the cache, the recorder holds the request's
\* cache.read span before its database.read span, and that one before the cache.write
\* span that caches the subscriber again: the spans of the request's calls are recorded
\* in the order of the calls.
C16_ReadSpanOrder ==
  \A p \in Procs :
    MissedRead(p) =>
      LET n == Len(hist.sent[p]) - 1
          rec == LastRecorded(n) IN
      /\ n = IF loc[p].err = "" THEN 3 ELSE 2
      /\ Len(spans) >= n
      /\ rec = SubSeq(hist.sent[p], 1, n)
      /\ Carries(rec[1], "operation", "cache.read") /\ Carries(rec[1], "cache.key", loc[p].key)
      /\ Carries(rec[2], "operation", "database.read")
      /\ n = 3 => (Carries(rec[3], "operation", "cache.write")
                    /\ Carries(rec[3], "cache.key", loc[p].key))

\* a read that found its entry expired has recorded its three spans after the spans of
\* earlier requests
C16_Witness ==
  \E p \in Procs :
    /\ MissedRead(p) /\ loc[p].err = ""
    /\ Len(spans) > 3
    /\ Carries(LastRecorded(3)[1], "cache.result", "expired")

\* --------------------------------------------------------------------- C17
\* C17: after the teardown of the application the reaper has terminated and starts no
\* further sweep.
C17_ReaperStops ==
  hist.closedAt >= 0 => ~(reaper.pc = "sweep" /\ reaper.now > hist.closedAt)

\* --------------------------------------------------------------------- C18
\* C18: every span a component of an application instance emits is recorded only in
\* that instance's recorder, for any interleaving of the setup and the requests of two
\* instances.
C18_SpansIsolated ==
  \A i \in Insts : \A k \in 1..Len(recorders[i]) : recorders[i][k].app = i

\* --------------------------------------------------------------------- C19
\* a call that has returned left no span open
SpansEnded == \A p \in Procs : Idle(p) => open[p] = <<>>

\* a span that ends after the context of its call was cancelled has an error recorded
CancelRecorded ==
  \A p \in Procs : At(p, "exp_lock") /\ loc[p].cancelled => loc[p].batch[1].err

\* C19: an operation of the cache, the repository or the service whose context is
\* cancelled while it runs ends every span it opened, and the span has the
\* cancellation recorded as an error.
C19_CancelledSpans == SpansEnded /\ CancelRecorded

\* --------------------------------------------------------------------- C20
RepositorySpans == {"subscriber.repository.create", "subscriber.repository.get_by_id",
                    "subscriber.repository.get_all", "subscriber.repository.update",
                    "subscriber.repository.delete"}
ServiceSpans == {"subscriber.service.create", "subscriber.service.get",
                 "subscriber.service.get_all", "subscriber.service.update",
                 "subscriber.service.delete"}

\* the span p has just ended, at the return of the operation that started it
EndedSpan(p) == loc[p].batch[1]

\* the operation whose span p has just ended returns an error to its caller
ReturnsError(p) ==
  \/ EndedSpan(p).name \in RepositorySpans /\ loc[p].rerr # ""
  \/ EndedSpan(p).name \in ServiceSpans /\ loc[p].err # ""

\* the same, for the spans of the service and of the in-memory repository only
ReturnsErrorInMemory(p) ==
  /\ ReturnsError(p)
  /\ ~Carries(EndedSpan(p), "dapr.store", StoreName)

ErrorsRecordedInMemory ==
  \A p \in Procs : At(p, "exp_lock") /\ ReturnsErrorInMemory(p) => EndedSpan(p).err

\* C20: every span of a repository or service operation that returns an error has the
\* error recorded when it ends.
C20_ErrorsRecorded ==
  \A p \in Procs : At(p, "exp_lock") /\ ReturnsError(p) => EndedSpan(p).err

\* --------------------------------------------------------------------- C21
\* the values the span carries for attribute k
ValuesOf(span, k) == {span.attrs[i][2] : i \in {j \in 1..Len(span.attrs) : span.attrs[j][1] = k}}

\* the number of attributes of the span named k
CountOf(span, k) == Cardinality({j \in 1..Len(span.attrs) : span.attrs[j][1] = k})

\* p has done the lookup of a cache Get and still holds the read lock
GetLooked(p) == At(p, "get_runlock")

\* the outcome attributes of the Get span of p, given whether its entry counts as live
GetOutcome(p, live) ==
  LET span == Head(open[p])
      item == items[loc[p].key]
  IN  /\ CountOf(span, "cache.result") = 1
      /\ CountOf(span, "cache.hit") = 1
      /\ ValuesOf(span, "cache.result") \subseteq {"hit", "miss", "expired"}
      /\ Carries(span, "cache.result", "miss") <=> item = NoItem
      /\ Carries(span, "cache.result", "expired") <=> (item # NoItem /\ ~live)
      /\ Carries(span, "cache.result", "hit") <=> (item # NoItem /\ live)
      /\ Carries(span, "cache.hit", "true") <=> Carries(span, "cache.result", "hit")
      /\ (loc[p].cres # Nil /\ loc[p].cerr = "") <=> Carries(span, "cache.hit", "true")

GetStepOf(p) ==
  /\ At(p, "get") \/ At(p, "get_read") \/ At(p, "get_runlock")
  /\ pc'[p] # pc[p]

\* C22: no step of Get changes the cache map: the entries and their expiry instants
\* are the same before and after, whether the key's entry is absent, live or expired;
\* the map changes only in a step of Set, Delete, Clear or the reaper's sweep.
C22_GetKeepsMap ==
  [][/\ \A p \in Procs : GetStepOf(p) => items' = items
     /\ items' # items => \/ reaper' # reaper
                          \/ \E p \in Procs : /\ pc'[p] # pc[p]
                                              /\ \/ At(p, "set_write") \/ At(p, "del_write")
                                                 \/ At(p, "clr_write")]_vars

\* a Get has reported an entry expired and the entry is still in the map
C22_Witness ==
  \E p \in Procs :
    /\ pc[p] = <<"exp_lock">> /\ loc[p].op = "cache.Get"
    /\ loc[p].cerr = "key expired in cache"
    /\ items[loc[p].key] # NoItem

\* --------------------------------------------------------------------- C23
\* p holds the write lock in Set and stores its entry in this step
SetWriteStep(p) == At(p, "set_write") /\ pc'[p] # pc[p]

\* p holds the read lock in Get and looks its key up in this step
GetReadStep(p) == At(p, "get_read") /\ pc'[p] # pc[p]

\* the last Set of key k that took the write lock, when its entry has not expired
LastLiveSet(k) == hist.lastSet[k] # NoSet /\ now <= hist.lastSet[k].t0 + hist.lastSet[k].d

\* C23: Set returns no error and replaces whatever entry its key has, live or expired,
\* by {v, now + ttl}, leaving the other keys alone; a Get before the expiry of the last
\* Set that took the write lock returns that Set's value.
C23_SetReplaces ==
  [][\A p \in Procs :
       /\ SetWriteStep(p) =>
            /\ items' = [items EXCEPT ![loc[p].key] =
                           [subscriber |-> loc[p].sub, expireAt |-> now + loc[p].ttl]]
            /\ loc'[p].cerr = ""
       /\ GetReadStep(p) /\ LastLiveSet(loc[p].key) =>
            /\ loc'[p].cerr = ""
            /\ loc'[p].cres = hist.lastSet[loc[p].key].v]_vars

\* two Sets stored different subscribers under one key, and a Get of the key returns one
C23_Witness ==
  \E p \in Procs, i, j \in 1..Len(spans) :
    /\ i < j
    /\ spans[i].name = "cache.set" /\ spans[j].name = "cache.set"
    /\ ValuesOf(spans[i], "cache.key") = {loc[p].key}
    /\ ValuesOf(spans[j], "cache.key") = {loc[p].key}
    /\ ValuesOf(spans[i], "subscriber.id") # ValuesOf(spans[j], "subscriber.id")
    /\ pc[p] = <<"exp_lock">> /\ loc[p].op = "cache.Get"
    /\ loc[p].cerr = "" /\ ValuesOf(spans[j], "subscriber.id") = {IdStr(loc[p].cres)}

\* --------------------------------------------------------------------- C24
\* p holds the write lock in Delete and removes its key in this step
DeleteWriteStep(p) == At(p, "del_write") /\ pc'[p] # pc[p]

\* C24: Delete returns no error, removes the entry of its key if there is one and
\* changes no other key (so nothing at all when the key is absent), and its span's
\* key.existed is true iff the key had an entry, live or expired, under the write lock.
C24_DeleteIdempotent ==
  [][\A p \in Procs :
       DeleteWriteStep(p) =>
         /\ items' = [k \in CacheKeys |-> IF k = loc[p].key THEN NoItem ELSE items[k]]
         /\ items[loc[p].key] = NoItem => items' = items
         /\ loc'[p].cerr = ""
         /\ ValuesOf(Head(open'[p]), "key.existed") = {BoolStr(items[loc[p].key] # NoItem)}
         /\ CountOf(Head(open'[p]), "key.existed") = 1]_vars

\* a Delete that found its key has returned, and the key has no entry
C24_Witness ==
  \E p \in Procs :
    /\ pc[p] = <<"exp_lock">> /\ loc[p].op = "cache.Delete"
    /\ Carries(EndedSpan(p), "key.existed", "true")
    /\ loc[p].cerr = ""
    /\ items[loc[p].key] = NoItem

\* --------------------------------------------------------------------- C25
\* p holds the write lock in Clear and replaces the map in this step
ClearWriteStep(p) == At(p, "clr_write") /\ pc'[p] # pc[p]

\* the keys that physically have an entry, expired or not
Present == {k \in CacheKeys : items[k] # NoItem}

\* C25: Clear empties the whole map in one step under the write lock, while no Get is
\* between its RLock and its RUnlock; its span's items.cleared is the number of entries
\* present, expired ones included; and a Get that looks a key up after a Clear and
\* before a later Set stores the key reports not-found.
C25_ClearAtomic ==
  [][\A p \in Procs :
       /\ ClearWriteStep(p) =>
            /\ \A k \in CacheKeys : items'[k] = NoItem
            /\ \A q \in Procs : ~At(q, "get_read") /\ ~At(q, "get_runlock")
            /\ ValuesOf(Head(open'[p]), "items.cleared") = {ToString(Cardinality(Present))}
            /\ loc'[p].cerr = ""
       /\ GetReadStep(p) /\ hist.lastSet[loc[p].key] = NoSet =>
            loc'[p].cerr # "" /\ loc'[p].cres = Nil]_vars

\* a Clear that counted two entries has returned, and a Get after it misses
C25_Witness ==
  \E p \in Procs, i \in 1..Len(spans) :
    /\ spans[i].name = "cache.clear"
    /\ Carries(spans[i], "items.cleared", "2")
    /\ pc[p] = <<"exp_lock">> /\ loc[p].op = "cache.Get"
    /\ loc[p].cerr = "key not found in cache"

\* --------------------------------------------------------------------- C26
\* the reaper ends a sweep in this step
SweepEnds == reaper.pc = "sweep" /\ reaper'.pc = "idle"

\* the reaper removes the entry of key k in this step
SweepRemoves(k) == reaper' # reaper /\ items[k] # NoItem /\ items'[k] = NoItem

\* C26: a sweep leaves no entry whose expiry had passed when the sweep read the clock,
\* and removes no entry that Get would find at that instant; what a Get finds is fixed
\* by the last Set, Delete or Clear of its key and the clock, sweeps or no sweeps.
C26_SweepOnlyReclaims ==
  [][/\ SweepEnds => \A k \in CacheKeys : items[k] # NoItem => items[k].expireAt >= reaper.now
     /\ \A k \in CacheKeys : SweepRemoves(k) => now > items[k].expireAt
     /\ \A p \in Procs :
          GetReadStep(p) =>
            /\ loc'[p].cerr = "" <=> LastLiveSet(loc[p].key)
            /\ loc'[p].cerr = "" => loc'[p].cres = hist.lastSet[loc[p].key].v
            /\ loc'[p].cerr # "" => loc'[p].cres = Nil]_vars

\* a Get has reported not-found for a key whose expired entry a sweep removed
C26_Witness ==
  \E p \in Procs :
    /\ pc[p] = <<"exp_lock">> /\ loc[p].op = "cache.Get"
    /\ loc[p].cerr = "key not found in cache"
    /\ loc[p].key \in hist.removed
    /\ hist.lastSet[loc[p].key] # NoSet

\* --------------------------------------------------------------------- C27
\* p is inside ExportSpans: it waits for the recorder's lock or holds it
InExport(p) == At(p, "exp_lock") \/ At(p, "exp_append")

\* p holds the cache's lock or the in-memory repository's lock
HoldsDataLock(p) == cmu.w = p \/ p \in cmu.r \/ rmu.w = p \/ p \in rmu.r

NthOf(idx, j) == CHOOSE i \in idx : Cardinality({x \in idx : x <= i}) = j

\* result holds exactly the recorded spans at the positions idx, each once, in the
\* order they were recorded
ExactlyAt(result, idx) ==
  /\ Len(result) = Cardinality(idx)
  /\ \A j \in 1..Len(result) : result[j] = spans[NthOf(idx, j)]

\* C28: GetSpansByName(n) is the recorded spans named n and GetSpansByOperation(op)
\* the recorded spans with an attribute operation = op, each span once and in
\* recording order, so neither is longer than Count().
C28_QueriesExact ==
  /\ \A n \in SpanNames :
       /\ ExactlyAt(GetSpansByName(n), {i \in 1..Len(spans) : spans[i].name = n})
       /\ Len(GetSpansByName(n)) <= Count
  /\ \A op \in Operations :
       /\ ExactlyAt(GetSpansByOperation(op),
                    {i \in 1..Len(spans) : Carries(spans[i], "operation", op)})
       /\ Len(GetSpansByOperation(op)) <= Count

\* a query by name returns two different spans and leaves others out
C28_Witness ==
  \E n \in SpanNames :
    /\ Len(GetSpansByName(n)) >= 2
    /\ GetSpansByName(n)[1] # GetSpansByName(n)[2]
    /\ Len(GetSpansByName(n)) < Count
    /\ \E op \in Operations : Len(GetSpansByOperation(op)) >= 2

\* --------------------------------------------------------------------- C29
\* p returns from a GetSubscriber of a subscriber that started after a successful
\* DeleteSubscriber of the subscriber had returned
ReadAfterDelete(p) == Returning(p, "svc.Get") /\ loc[p].afterDelete

\* C29: a read of K that starts after a successful Delete of K has returned does not
\* return K, and once no request is in flight the cache has no entry for a deleted
\* subscriber, however the Delete interleaved with reads of K.
C29_NoReadAfterDelete ==
  /\ \A p \in Procs : ReadAfterDelete(p) => loc[p].res = Nil /\ loc[p].err # ""
  /\ (\A p \in Procs : Idle(p)) =>
       \A id \in hist.deleted : items[GenerateCacheKey(id)] = NoItem

\* --------------------------------------------------------------------- C30
\* the UpdateSubscriber that q runs has written the request's fields into the object
\* s.repo.GetByID returned and its s.repo.Update has not yet stored the object
Uncommitted(q, id) ==
  /\ loc[q].op = "svc.Update" /\ loc[q].id = id
  /\ At(q, "ru") \/ At(q, "ru_write")

\* C30: a GetSubscriber that returns a subscriber while an UpdateSubscriber of it has
\* not committed returns the email committed before (the one it was created with, the
\* update being the first), from the cache or from the repository.
C30_NoDirtyRead ==
  \A p, q \in Procs :
    (Returning(p, "svc.Get") /\ loc[p].res # Nil /\ Uncommitted(q, loc[p].res))
      => heap[loc[p].res].email \in Emails

====
